---- MODULE Spec2Model ----
(***************************************************************************)
(* Bicycle accidents pipeline: the record merger (src/src/etl.py), the     *)
(* filter engine, the category collapser and the severity cross-tabulation *)
(* (src/src/dashboard_utils.py), modelled over small pandas-like tables.   *)
(*                                                                         *)
(* A table is a record [columns, rows]: columns is the set of column names *)
(* and rows a sequence of functions from the column names to cell values.  *)
(* A column (pandas Series) is a sequence of cell values.                  *)
(***************************************************************************)
EXTENDS Integers, Sequences, FiniteSets, TLC

\* ------------------------------------------------------------------ bounds
MaxRows == 3        \* rows of each input file of the merge
MaxDfRows == 2      \* rows of the table handed to filter_dataframe
MaxSeriesLen == 5   \* rows of the column handed to group_rare_categories
MaxMinCount == 3    \* largest threshold handed to group_rare_categories
MaxSevRows == 3     \* rows of the table handed to prepare_severity_analysis
MaxPreRows == 2     \* rows of the table handed to preprocess
MaxTempRows == 4    \* rows of the table handed to the temporal aggregations
MaxPipeRows == 2    \* rows of each input file of the batch pipeline
MaxRuns == 2        \* runs of equal rows of the table handed to create_sankey_data
MaxFrameRows == 1   \* rows of the objects whose identity is tracked
MaxHourRows == 3    \* rows of the table handed to extract_hour_from_time
MaxCorrRows == 2    \* rows of the table handed to calculate_correlation_matrix
MaxHeatRows == 2    \* rows of the table handed to prepare_severity_speed_heatmap
MaxChartRows == 3   \* rows of the table handed to the severity cross-tabulations
MaxNullRows == 2    \* rows of the merged table followed from preprocess to the aggregations
NumKeys == 4        \* distinct Accident_Index values

\* ----------------------------------------------------------------- helpers
Range(s) == {s[i] : i \in 1..Len(s)}

\* ------------------------------------------------------------------- state
VARIABLES
    accidents,      \* table read from data/Accidents.csv
    bikers,         \* table read from data/Bikers.csv
    merged,         \* result of merge_accidents_bikers
    etlStatus,      \* "idle", "start", "merged" or "KeyError"
    df,             \* table handed to filter_dataframe
    filters,        \* keyword arguments of the filter_dataframe call
    filtered,       \* table returned by filter_dataframe
    filterStatus,   \* "idle", "start", "returned" or "KeyError"
    series,         \* column handed to group_rare_categories
    min_count,      \* its threshold
    other_label,    \* its catch-all label
    collapsed,      \* column returned by group_rare_categories
    collapseStatus, \* "idle", "start" or "returned"
    sevDf,          \* table handed to prepare_severity_analysis
    by_column,      \* its grouping column
    sevOut,         \* table returned by prepare_severity_analysis
    sevStatus,      \* "idle", "start" or "returned"
    preDf,          \* table handed to preprocess
    preOut,         \* table returned by preprocess
    preStatus,      \* "idle", "start", "returned" or "KeyError"
    tsDf,           \* table handed to prepare_time_series_data
    freq,           \* its freq argument
    tsOut,          \* table returned by prepare_time_series_data
    tsStatus,       \* "idle", "start", "returned" or "KeyError"
    taDf,           \* table handed to prepare_temporal_analysis
    taOut,          \* dict returned by prepare_temporal_analysis
    taStatus,       \* "idle", "start", "returned", "KeyError" or "ValueError"
    pc,             \* statement of main.py that runs next
    pipeStatus,     \* "idle", "running", "done", "KeyError" or "TypeError"
    df_clean,       \* table returned by preprocess in main.py
    snapshot,       \* the file processed/bicycle_accidents.parquet
    plots,          \* the plot files written to processed/
    appPc,          \* statement of main() in app.py that runs next
    appStatus,      \* "idle", "running", "done", "stopped", "KeyError" or "ValueError"
    base,           \* table returned by load_data
    selection,      \* filters returned by create_sidebar_filters
    working,        \* table returned by filter_dataframe in main()
    shown,          \* what the page shows: "error", "warning", "kpis", "charts"
    sankeyDf,       \* table handed to create_sankey_data, as runs of equal rows
    sankeyOut,      \* dict returned by create_sankey_data
    sankeyStatus,   \* "idle", "start" or "returned"
    heap,           \* objects the caller holds: the argument of the last call, then its result
    argRef,         \* position the argument of the last call had among the objects held before
    frameCall,      \* name of the last function called
    frameStatus,    \* start, returned or the exception raised
    hourDf,         \* table handed to extract_hour_from_time
    hourOut,        \* table it returned
    hourStatus,     \* start or returned
    corrDf,         \* table handed to calculate_correlation_matrix
    corrOut,        \* matrix it returned
    corrStatus,     \* start or returned
    heatDf,         \* table handed to prepare_severity_speed_heatmap
    heatOut,        \* frame it returned
    heatStatus,     \* start or returned
    chartDf,        \* filtered table handed to the chart functions
    chartCall,      \* name of the function called
    chartOut,       \* tables it returned, by name
    chartStatus,    \* start, returned or the exception raised
    nullRaw,        \* merged table before preprocess
    nullClean,      \* table preprocess returned
    nullCall,       \* aggregation called on the cleaned table
    nullBy,         \* its by_column argument
    nullOut,        \* what it returned
    nullStatus,     \* raw, clean or returned
    interacted      \* a widget has changed since the session started

etlVars == <<accidents, bikers, merged, etlStatus>>
filterVars == <<df, filters, filtered, filterStatus>>
collapseVars == <<series, min_count, other_label, collapsed, collapseStatus>>
sevVars == <<sevDf, by_column, sevOut, sevStatus>>
preVars == <<preDf, preOut, preStatus>>
tsVars == <<tsDf, freq, tsOut, tsStatus>>
taVars == <<taDf, taOut, taStatus>>
pipeVars == <<pc, pipeStatus, df_clean, snapshot, plots>>
appVars == <<appPc, appStatus, base, selection, working, shown>>
sankeyVars == <<sankeyDf, sankeyOut, sankeyStatus>>
frameVars == <<heap, argRef, frameCall, frameStatus>>
hourVars == <<hourDf, hourOut, hourStatus>>
corrVars == <<corrDf, corrOut, corrStatus>>
heatVars == <<heatDf, heatOut, heatStatus>>
chartVars == <<chartDf, chartCall, chartOut, chartStatus>>
nullVars == <<nullRaw, nullClean, nullCall, nullBy, nullOut, nullStatus>>
sessionVars == <<interacted>>
vars == <<etlVars, filterVars, collapseVars, sevVars, preVars, tsVars, taVars, pipeVars, appVars, sankeyVars, frameVars, hourVars, corrVars, heatVars, chartVars, nullVars, sessionVars>>

\* ------------------------------------------------- tables and idle states
EmptyTable == [columns |-> {}, rows |-> <<>>]

\* A missing cell (NaN / None) of a text column, and of a numeric column.
Null == "<NA>"
NaN == -1

\* The dict filter_mapping, in insertion order: the columns of the seven
\* categorical facets.
FilterMapping == <<"severity", "gender", "age_grp", "road_conditions",
                   "weather_conditions", "road_type", "light_conditions">>

FacetCols == Range(FilterMapping)

\* year_range=None and a facet left at its default None.
NoYearRange == [none |-> TRUE, lo |-> 0, hi |-> 0]
NoneArg == [none |-> TRUE, values |-> <<>>]

NoFilters == [year_range |-> NoYearRange, cats |-> [c \in FacetCols |-> NoneArg]]

EtlIdle ==
    /\ accidents = EmptyTable /\ bikers = EmptyTable
    /\ merged = EmptyTable /\ etlStatus = "idle"

FilterIdle ==
    /\ df = EmptyTable /\ filters = NoFilters
    /\ filtered = EmptyTable /\ filterStatus = "idle"

CollapseIdle ==
    /\ series = <<>> /\ min_count = 0 /\ other_label = "Other"
    /\ collapsed = <<>> /\ collapseStatus = "idle"

\* pd.DataFrame(): a cross-tabulation with no columns and no rows.
EmptyFrame == [columns |-> <<>>, index |-> <<>>, cell |-> <<>>]

SevIdle ==
    /\ sevDf = EmptyTable /\ by_column = "weather_conditions"
    /\ sevOut = EmptyFrame /\ sevStatus = "idle"

PreIdle ==
    /\ preDf = EmptyTable /\ preOut = EmptyTable /\ preStatus = "idle"

TsIdle ==
    /\ tsDf = EmptyTable /\ freq = "year" /\ tsOut = <<>> /\ tsStatus = "idle"

\* results = {}: a dict without keys.
EmptyResults ==
    [keys |-> {}, hourly |-> <<>>, weekend_vs_weekday |-> EmptyFrame,
     monthly_trends |-> <<>>]

TaIdle ==
    /\ taDf = EmptyTable /\ taOut = EmptyResults /\ taStatus = "idle"

\* The snapshot file before save_parquet has written it.
NoSnapshot == [exists |-> FALSE, table |-> EmptyTable]

PipeIdle ==
    /\ pc = "idle" /\ pipeStatus = "idle" /\ df_clean = EmptyTable
    /\ snapshot = NoSnapshot /\ plots = {}

AppIdle ==
    /\ appPc = "idle" /\ appStatus = "idle" /\ base = EmptyTable
    /\ selection = NoFilters /\ working = EmptyTable /\ shown = {}

\* A table kept as runs of equal rows, without columns and rows.
EmptyRunTable == [columns |-> {}, runs |-> <<>>]

\* return {}: a dict without keys.
EmptyDict ==
    [keys |-> {}, nodes |-> <<>>, sources |-> <<>>, targets |-> <<>>, values |-> <<>>]

SankeyIdle ==
    /\ sankeyDf = EmptyRunTable /\ sankeyOut = EmptyDict /\ sankeyStatus = "idle"

FrameIdle ==
    /\ heap = <<>> /\ argRef = 0 /\ frameCall = "none" /\ frameStatus = "idle"

HourIdle ==
    /\ hourDf = EmptyTable /\ hourOut = EmptyTable /\ hourStatus = "idle"

\* pd.DataFrame(): a frame without columns and rows.
EmptyMatrix == [columns |-> <<>>, data |-> <<>>]

CorrIdle ==
    /\ corrDf = EmptyTable /\ corrOut = EmptyMatrix /\ corrStatus = "idle"

HeatIdle ==
    /\ heatDf = EmptyTable /\ heatOut = EmptyFrame /\ heatStatus = "idle"

ChartIdle ==
    /\ chartDf = EmptyTable /\ chartCall = "none" /\ chartOut = <<>>
    /\ chartStatus = "idle"

NullIdle ==
    /\ nullRaw = EmptyTable /\ nullClean = EmptyTable /\ nullCall = "none"
    /\ nullBy = "none" /\ nullOut = <<>> /\ nullStatus = "idle"

SessionIdle == interacted = FALSE

\* ============================================================ Record Merger
KeyCol == "Accident_Index"

Keys == 1..NumKeys

AccidentCols == {KeyCol, "Date"}
BikerCols == {KeyCol, "Gender"}

\* The rows a CSV file with the given columns can hold: the join key ranges
\* over Keys, any other column carries one payload value (the merge never
\* looks at it).
CsvRows(cols) ==
    { k @@ v : k \in [cols \cap {KeyCol} -> Keys],
               v \in [cols \ {KeyCol} -> {0}] }

\* load_csv(path) = t: the file holds the columns of its schema, with or
\* without the key column, and up to MaxRows rows.
load_csv(t, schema) ==
    \E cols \in {schema, schema \ {KeyCol}}, n \in 0..MaxRows :
        \E r \in [1..n -> CsvRows(cols)] : t = [columns |-> cols, rows |-> r]

\* One output row of the join: the columns of both rows, the key once.
JoinRow(a, b) == [c \in (DOMAIN a) \cup (DOMAIN b) |->
                    IF c \in DOMAIN a THEN a[c] ELSE b[c]]

\* how='left' instead of how='inner': an unmatched left row is kept.
MatchesLeft(a, B) ==
    LET m == SelectSeq(B, LAMBDA b : b[KeyCol] = a[KeyCol])
    IN  IF m = <<>> THEN <<a>> ELSE [j \in 1..Len(m) |-> JoinRow(a, m[j])]

\* A cross join: every row of B joins, whatever its key.
MatchesCross(a, B) == [j \in 1..Len(B) |-> JoinRow(a, B[j])]

\* The rows of B that join with row a, in the order of B.
Matches(a, B) ==
    LET m == SelectSeq(B, LAMBDA b : b[KeyCol] = a[KeyCol])
    IN  [j \in 1..Len(m) |-> JoinRow(a, m[j])]

RECURSIVE InnerJoinRows(_, _)
InnerJoinRows(A, B) ==
    IF A = <<>> THEN <<>>
    ELSE Matches(Head(A), B) \o InnerJoinRows(Tail(A), B)

\* pd.merge(accidents, bikers, on='Accident_Index', how='inner')
pd_merge(A, B) ==
    [columns |-> A.columns \cup B.columns,
     rows    |-> InnerJoinRows(A.rows, B.rows)]

InitMerge ==
    /\ load_csv(accidents, AccidentCols)
    /\ load_csv(bikers, BikerCols)
    /\ merged = EmptyTable
    /\ etlStatus = "start"
    /\ FilterIdle
    /\ CollapseIdle
    /\ SevIdle
    /\ PreIdle
    /\ TsIdle
    /\ TaIdle
    /\ PipeIdle
    /\ AppIdle
    /\ SankeyIdle
    /\ FrameIdle
    /\ HourIdle
    /\ CorrIdle
    /\ HeatIdle
    /\ ChartIdle
    /\ NullIdle
    /\ SessionIdle

\* merge_accidents_bikers on two files that both have the key column.
MergeAccidentsBikers ==
    /\ etlStatus = "start"
    /\ KeyCol \in accidents.columns
    /\ KeyCol \in bikers.columns
    /\ merged' = pd_merge(accidents, bikers)
    /\ etlStatus' = "merged"
    /\ UNCHANGED <<accidents, bikers, filterVars, collapseVars, sevVars, preVars, tsVars, taVars, pipeVars, appVars, sankeyVars, frameVars, hourVars, corrVars, heatVars, chartVars, nullVars, sessionVars>>

\* merge_accidents_bikers when pd.merge raises KeyError: no table is returned.
MergeKeyError ==
    /\ etlStatus = "start"
    /\ ~ (KeyCol \in accidents.columns /\ KeyCol \in bikers.columns)
    /\ etlStatus' = "KeyError"
    /\ UNCHANGED <<accidents, bikers, merged, filterVars, collapseVars, sevVars, preVars, tsVars, taVars, pipeVars, appVars, sankeyVars, frameVars, hourVars, corrVars, heatVars, chartVars, nullVars, sessionVars>>

NextMerge == MergeAccidentsBikers \/ MergeKeyError

SpecMerge == InitMerge /\ [][NextMerge]_vars

\* ---------------------------------------------------------- merge: claims
KeysOf(t) == {t.rows[i][KeyCol] : i \in 1..Len(t.rows)}

UniqueKeys(t) ==
    \A i, j \in 1..Len(t.rows) : t.rows[i][KeyCol] = t.rows[j][KeyCol] => i = j

CommonKeys == KeysOf(accidents) \cap KeysOf(bikers)

Min(a, b) == IF a <= b THEN a ELSE b

\* C1: merge_accidents_bikers returns the inner join on Accident_Index:
\* every output key occurs in both inputs, every key of both inputs occurs
\* in the output, and with keys unique within each input the output has
\* exactly one row per common key.
C1_InnerJoin ==
    etlStatus = "merged" =>
        /\ KeysOf(merged) \subseteq CommonKeys
        /\ CommonKeys \subseteq KeysOf(merged)
        /\ (UniqueKeys(accidents) /\ UniqueKeys(bikers)) =>
              /\ Len(merged.rows) = Cardinality(CommonKeys)
              /\ UniqueKeys(merged)

\* C1 witness: 3 and 2 rows with unique keys sharing 1 key give 1 row, and
\* a key of each input is left out.
C1_Witness ==
    /\ etlStatus = "merged"
    /\ Len(accidents.rows) = 3 /\ Len(bikers.rows) = 2
    /\ UniqueKeys(accidents) /\ UniqueKeys(bikers)
    /\ Cardinality(CommonKeys) = 1
    /\ Len(merged.rows) = 1
    /\ KeysOf(bikers) \ KeysOf(merged) # {}

\* C2 as stated: for all inputs, repeated keys included, the number of
\* merged rows is at most min(|A|, |B|).
C2_RowCountAtMostMin ==
    etlStatus = "merged" =>
        Len(merged.rows) <= Min(Len(accidents.rows), Len(bikers.rows))

\* C2 amended: the number of merged rows is at most |B| when keys are unique
\* within A and at most |A| when keys are unique within B (so at most
\* min(|A|, |B|) when unique within both); in general at most |A| * |B|.
C2_RowCountBound ==
    etlStatus = "merged" =>
        /\ UniqueKeys(accidents) => Len(merged.rows) <= Len(bikers.rows)
        /\ UniqueKeys(bikers) => Len(merged.rows) <= Len(accidents.rows)
        /\ Len(merged.rows) <= Len(accidents.rows) * Len(bikers.rows)

\* C2 witness: one accident with two cyclists gives two rows, more than
\* min(|A|, |B|) = 1 and equal to |B|.
C2_Witness ==
    /\ etlStatus = "merged"
    /\ Len(accidents.rows) = 1 /\ Len(bikers.rows) = 2
    /\ Len(merged.rows) = 2

\* ============================================================ Filter Engine
Years == {2019, 2020}

YearCells == Years \cup {NaN}
CatCells == {"A", Null}

\* The tables handed to the filter: the year column and up to two of the
\* facet columns, each present or absent, every cell a value or missing.
FacetPairs == {P \in SUBSET FacetCols : Cardinality(P) = 2}

DfColumnSets == UNION {SUBSET ({"year"} \cup P) : P \in FacetPairs}

DfRows(cols) ==
    { y @@ c : y \in [cols \cap {"year"} -> YearCells],
               c \in [cols \ {"year"} -> CatCells] }

IsDfTable(t) ==
    \E cols \in DfColumnSets, n \in 0..MaxDfRows :
        \E r \in [1..n -> DfRows(cols)] : t = [columns |-> cols, rows |-> r]

\* The values a caller passes: a (min, max) tuple or None for the year
\* range; None, the empty list or a list of labels for a facet.
YearRangeArgs ==
    {NoYearRange} \cup
    { [none |-> FALSE, lo |-> a, hi |-> b] : a \in Years, b \in Years }

FacetArgs ==
    {NoneArg} \cup
    { [none |-> FALSE, values |-> v] : v \in {<<>>, <<"A">>, <<"B">>} }

\* Python truthiness: `if year_range:` and `if values`.
TruthyRange(yr) == ~ yr.none
Truthy(arg) == ~ arg.none /\ Len(arg.values) > 0

\* Comparisons with NaN are False.
Ge(y, m) == y # NaN /\ y >= m

\* `<` instead of `<=`: the upper bound is excluded.
LeStrict(y, m) == y # NaN /\ y < m

Le(y, m) == y # NaN /\ y <= m

\* Series.isin(values)
isin(v, values) == \E i \in 1..Len(values) : values[i] = v

\* filtered_df[mask]: the rows kept by a boolean mask, in order.
WithRows(t, rows) == [columns |-> t.columns, rows |-> rows]

\* Lines 37-42: the year filter.
FilterYear(t, yr) ==
    IF TruthyRange(yr)
    THEN WithRows(t, SelectSeq(t.rows,
                LAMBDA r : Ge(r["year"], yr.lo) /\ Le(r["year"], yr.hi)))
    ELSE t

\* `if values is not None and column in ...`: an empty list empties the table.
FilterFacetNotNone(t, column, arg) ==
    IF ~ arg.none /\ column \in t.columns
    THEN WithRows(t, SelectSeq(t.rows, LAMBDA r : isin(r[column], arg.values)))
    ELSE t

\* Lines 56-57: one iteration of the loop over filter_mapping.
FilterFacet(t, column, arg) ==
    IF Truthy(arg) /\ column \in t.columns
    THEN WithRows(t, SelectSeq(t.rows, LAMBDA r : isin(r[column], arg.values)))
    ELSE t

\* A loop that stops after the first facet it applies.
RECURSIVE FilterFacetsFirst(_, _, _)
FilterFacetsFirst(t, cats, k) ==
    IF k > Len(FilterMapping) THEN t
    ELSE IF Truthy(cats[FilterMapping[k]]) /\ FilterMapping[k] \in t.columns
         THEN FilterFacet(t, FilterMapping[k], cats[FilterMapping[k]])
         ELSE FilterFacetsFirst(t, cats, k + 1)

\* Lines 55-57: the loop over filter_mapping from its k-th item on.
RECURSIVE FilterFacets(_, _, _)
FilterFacets(t, cats, k) ==
    IF k > Len(FilterMapping) THEN t
    ELSE FilterFacets(FilterFacet(t, FilterMapping[k], cats[FilterMapping[k]]),
                      cats, k + 1)

\* filtered_df['year'] raises KeyError when the table has no year column.
FilterRaises(t, f) == TruthyRange(f.year_range) /\ "year" \notin t.columns

\* filter_dataframe(df, **filters) when it returns.
filter_dataframe(t, f) == FilterFacets(FilterYear(t, f.year_range), f.cats, 1)

\* The calls the model makes: the facets engaged lie within one pair of
\* facets that also holds the facet columns of the table.
FilterCalls(t) ==
    { [year_range |-> yr, cats |-> [c \in FacetCols |-> IF c \in DOMAIN a THEN a[c] ELSE NoneArg]] :
        yr \in YearRangeArgs,
        a \in UNION { [P -> FacetArgs] :
                        P \in {Q \in FacetPairs : (t.columns \ {"year"}) \subseteq Q} } }

InitFilter ==
    /\ EtlIdle
    /\ CollapseIdle
    /\ SevIdle
    /\ PreIdle
    /\ TsIdle
    /\ TaIdle
    /\ PipeIdle
    /\ AppIdle
    /\ SankeyIdle
    /\ FrameIdle
    /\ HourIdle
    /\ CorrIdle
    /\ HeatIdle
    /\ ChartIdle
    /\ NullIdle
    /\ SessionIdle
    /\ IsDfTable(df)
    /\ filters = NoFilters
    /\ filtered = EmptyTable
    /\ filterStatus = "start"

\* A call of filter_dataframe that returns.
FilterDataframe ==
    /\ filterStatus = "start"
    /\ \E f \in FilterCalls(df) :
          /\ ~ FilterRaises(df, f)
          /\ filters' = f
          /\ filtered' = filter_dataframe(df, f)
    /\ filterStatus' = "returned"
    /\ UNCHANGED <<df, etlVars, collapseVars, sevVars, preVars, tsVars, taVars, pipeVars, appVars, sankeyVars, frameVars, hourVars, corrVars, heatVars, chartVars, nullVars, sessionVars>>

\* A call of filter_dataframe that raises KeyError at line 40.
FilterKeyError ==
    /\ filterStatus = "start"
    /\ \E f \in FilterCalls(df) :
          /\ FilterRaises(df, f)
          /\ filters' = f
    /\ filterStatus' = "KeyError"
    /\ UNCHANGED <<df, filtered, etlVars, collapseVars, sevVars, preVars, tsVars, taVars, pipeVars, appVars, sankeyVars, frameVars, hourVars, corrVars, heatVars, chartVars, nullVars, sessionVars>>

NextFilter == FilterDataframe \/ FilterKeyError

SpecFilter == InitFilter /\ [][NextFilter]_vars

\* --------------------------------------------------------- filter: claims
\* A facet is engaged when its list is non-empty and the table has its column.
Engaged(c) == Truthy(filters.cats[c]) /\ c \in df.columns

InYearRange(r) == r["year"] # NaN /\ filters.year_range.lo <= r["year"]
                                  /\ r["year"] <= filters.year_range.hi

\* The conjunction of the engaged predicates on one row.
SatisfiesAll(r) ==
    /\ TruthyRange(filters.year_range) => InYearRange(r)
    /\ \A c \in FacetCols :
          Engaged(c) => \E v \in Range(filters.cats[c].values) : r[c] = v

AllEmpty == filters.year_range.none /\ \A c \in FacetCols : ~ Truthy(filters.cats[c])

\* C3: filter_dataframe called with every parameter empty or absent
\* (year_range None, every facet None or []) returns a table with exactly
\* the rows of the input, in the same order and with the same values.
C3_FilterIdentity ==
    (filterStatus = "returned" /\ AllEmpty) => filtered = df

\* C3 witness: two different rows, one facet passed as [] on a column the
\* table has, everything else None, and both rows come back.
C3_Witness ==
    /\ filterStatus = "returned" /\ AllEmpty
    /\ Len(df.rows) = 2 /\ df.rows[1] # df.rows[2]
    /\ \E c \in FacetCols \cap df.columns :
          ~ filters.cats[c].none /\ filters.cats[c].values = <<>>
    /\ filtered = df

\* C4: filter_dataframe returns exactly the rows of the input that satisfy
\* every engaged predicate (year within the range AND, for each facet with a
\* non-empty list on a column of the table, the row's value in the list), in
\* input order; a facet passed as [] or None imposes no constraint, so the
\* result equals that of the call with the facet omitted.
C4_FilterConjunction ==
    filterStatus = "returned" =>
        /\ filtered.columns = df.columns
        /\ filtered.rows = SelectSeq(df.rows, SatisfiesAll)
        /\ \A c \in FacetCols :
              (~ filters.cats[c].none /\ filters.cats[c].values = <<>>) =>
                 filtered = filter_dataframe(df, [filters EXCEPT !.cats[c] = NoneArg])

\* C4 witness: the year range and two facets are engaged, a third facet is
\* passed as [], one row passes all predicates and one row fails only the
\* second facet.
C4_Witness ==
    /\ filterStatus = "returned"
    /\ TruthyRange(filters.year_range)
    /\ Cardinality({c \in FacetCols : Engaged(c)}) = 2
    /\ Len(df.rows) = 2 /\ Len(filtered.rows) = 1
    /\ filtered.rows[1] = df.rows[2]
    /\ InYearRange(df.rows[1])
    /\ \E c \in FacetCols : Engaged(c) /\ df.rows[1][c] = filters.cats[c].values[1]

\* C5: with year_range=(min, max) and no other predicate the result holds
\* only rows with min <= year <= max (both inclusive), as many as the input
\* rows satisfying that predicate, and no row with a null year.
C5_YearRange ==
    (/\ filterStatus = "returned"
     /\ TruthyRange(filters.year_range)
     /\ \A c \in FacetCols : ~ Truthy(filters.cats[c])) =>
        /\ \A i \in 1..Len(filtered.rows) :
              /\ filtered.rows[i]["year"] # NaN
              /\ filters.year_range.lo <= filtered.rows[i]["year"]
              /\ filtered.rows[i]["year"] <= filters.year_range.hi
        /\ Len(filtered.rows) =
              Cardinality({i \in 1..Len(df.rows) : InYearRange(df.rows[i])})

\* C5 witness: range (2019, 2020); a row of year 2020, the upper bound, is
\* returned and a row with a null year is not.
C5_Witness ==
    /\ filterStatus = "returned"
    /\ filters.year_range = [none |-> FALSE, lo |-> 2019, hi |-> 2020]
    /\ \A c \in FacetCols : filters.cats[c].none
    /\ Len(df.rows) = 2
    /\ df.rows[1]["year"] = 2020 /\ df.rows[2]["year"] = NaN
    /\ Len(filtered.rows) = 1 /\ filtered.rows[1]["year"] = 2020

\* The call with every predicate on a missing column taken out.
WithoutMissing ==
    [year_range |-> IF "year" \in df.columns THEN filters.year_range ELSE NoYearRange,
     cats |-> [c \in FacetCols |->
                 IF c \in df.columns THEN filters.cats[c] ELSE NoneArg]]

MissingPredicate ==
    \/ TruthyRange(filters.year_range) /\ "year" \notin df.columns
    \/ \E c \in FacetCols : Truthy(filters.cats[c]) /\ c \notin df.columns

\* C6: filter_dataframe silently ignores any predicate whose column is
\* missing from the table: for the year range and for each of the seven
\* facets, a non-empty value on an absent column raises no error and leaves
\* the rows unconstrained by that predicate.
C6_MissingColumnIgnored ==
    (filterStatus \in {"returned", "KeyError"} /\ MissingPredicate) =>
        /\ filterStatus = "returned"
        /\ filtered = filter_dataframe(df, WithoutMissing)

\* ======================================================= Category Collapser
Labels == {"A", "B", "C", "Other"}

SeriesCells == Labels \cup {Null}

\* Series.value_counts(): the count of each distinct non-null value.
value_counts(s) ==
    [v \in Range(s) \ {Null} |-> Cardinality({i \in 1..Len(s) : s[i] = v})]

\* `<=` instead of `<`: a value that just meets the threshold is rare too.
RareAtMost(counts, n) == {v \in DOMAIN counts : counts[v] <= n}

\* Line 99: value_counts[value_counts < min_count].index
RareCategories(counts, n) == {v \in DOMAIN counts : counts[v] < n}

\* Rows of a rare category dropped instead of relabelled.
DropRare(s, rare, label) == SelectSeq(s, LAMBDA v : v \notin rare)

\* Lines 102-103: result.loc[result.isin(rare_categories)] = other_label
Relabel(s, rare, label) ==
    [i \in 1..Len(s) |-> IF s[i] \in rare THEN label ELSE s[i]]

group_rare_categories(s, n, label) ==
    Relabel(s, RareCategories(value_counts(s), n), label)

InitCollapse ==
    /\ EtlIdle
    /\ FilterIdle
    /\ SevIdle
    /\ PreIdle
    /\ TsIdle
    /\ TaIdle
    /\ PipeIdle
    /\ AppIdle
    /\ SankeyIdle
    /\ FrameIdle
    /\ HourIdle
    /\ CorrIdle
    /\ HeatIdle
    /\ ChartIdle
    /\ NullIdle
    /\ SessionIdle
    /\ \E n \in 0..MaxSeriesLen : series \in [1..n -> SeriesCells]
    /\ min_count \in 0..MaxMinCount
    /\ other_label \in {"Other", "Rare"}
    /\ collapsed = <<>>
    /\ collapseStatus = "start"

GroupRareCategories ==
    /\ collapseStatus = "start"
    /\ collapsed' = group_rare_categories(series, min_count, other_label)
    /\ collapseStatus' = "returned"
    /\ UNCHANGED <<series, min_count, other_label, etlVars, filterVars, sevVars, preVars, tsVars, taVars, pipeVars, appVars, sankeyVars, frameVars, hourVars, corrVars, heatVars, chartVars, nullVars, sessionVars>>

NextCollapse == GroupRareCategories

SpecCollapse == InitCollapse /\ [][NextCollapse]_vars

\* ------------------------------------------------------- collapser: claims
\* Frequency of a value in the input column, counted position by position.
Freq(v) == Cardinality({j \in 1..Len(series) : series[j] = v})

\* C7: group_rare_categories returns a series of the same length in which,
\* at every position, a value whose input frequency is strictly below
\* min_count is replaced by other_label and a value whose frequency is at
\* least min_count is unchanged (a missing cell holds no value).
C7_RareReplaced ==
    collapseStatus = "returned" =>
        /\ Len(collapsed) = Len(series)
        /\ \A i \in 1..Len(series) :
              series[i] # Null =>
                 /\ Freq(series[i]) < min_count => collapsed[i] = other_label
                 /\ Freq(series[i]) >= min_count => collapsed[i] = series[i]

\* C7 witness: [A,A,A,B,C] with min_count=2 gives [A,A,A,Other,Other].
C7_Witness ==
    /\ collapseStatus = "returned"
    /\ series = <<"A", "A", "A", "B", "C">>
    /\ min_count = 2 /\ other_label = "Other"
    /\ collapsed = <<"A", "A", "A", "Other", "Other">>

\* The per-category counts of the output column, summed.
RECURSIVE SumCounts(_, _)
SumCounts(counts, S) ==
    IF S = {} THEN 0
    ELSE LET v == CHOOSE x \in S : TRUE
         IN  counts[v] + SumCounts(counts, S \ {v})

OutputCountsSum == SumCounts(value_counts(collapsed), DOMAIN value_counts(collapsed))

KeptOrOther ==
    \A i \in 1..Len(collapsed) :
        collapsed[i] # Null =>
           \/ collapsed[i] = other_label
           \/ \E j \in 1..Len(series) :
                 series[j] = collapsed[i] /\ Freq(series[j]) >= min_count

\* C8 as stated: every output value equals an original value of frequency
\* >= min_count or equals other_label, and the per-category counts of the
\* output sum to the total number of rows of the input column.
C8_CountsSumToRows ==
    collapseStatus = "returned" =>
        /\ KeptOrOther
        /\ OutputCountsSum = Len(series)

\* C8 amended: every output value equals an original value of frequency
\* >= min_count or equals other_label, and the per-category counts of the
\* output sum to the number of non-null rows of the input column (a missing
\* cell stays missing and belongs to no category).
C8_CountsSumToNonNull ==
    collapseStatus = "returned" =>
        /\ KeptOrOther
        /\ OutputCountsSum = Cardinality({i \in 1..Len(series) : series[i] # Null})
        /\ \A i \in 1..Len(series) : series[i] = Null <=> collapsed[i] = Null

\* C8 witness: a column with a missing cell, a rare value and a frequent one:
\* the counts of the output sum to 3 of the 4 rows.
C8_Witness ==
    /\ collapseStatus = "returned"
    /\ Len(series) = 4 /\ min_count = 2
    /\ Cardinality({i \in 1..4 : series[i] = Null}) = 1
    /\ \E i \in 1..4 : series[i] # Null /\ Freq(series[i]) = 2
    /\ \E i \in 1..4 : series[i] # Null /\ series[i] # other_label
                        /\ collapsed[i] = other_label
    /\ OutputCountsSum = 3

\* ================================================ Severity cross-tabulation
\* The severity labels a cleaned table can hold, in the sorted order pandas
\* gives the columns of a crosstab; 'Nan' is what preprocess makes of a
\* missing severity (astype(str) then title()).
SeverityLabels == <<"Fatal", "Nan", "Serious", "Slight">>

\* The labels of the grouping column, in sorted order.
GroupLabels == <<"Fine", "Rain">>

severity_order == <<"Slight", "Serious", "Fatal">>

SevColumnSets == SUBSET {"severity", "weather_conditions"}

SevRows(cols) ==
    { s @@ g : s \in [cols \cap {"severity"} -> Range(SeverityLabels) \cup {Null}],
               g \in [cols \ {"severity"} -> Range(GroupLabels) \cup {Null}] }

IsSevTable(t) ==
    \E cols \in SevColumnSets, n \in 0..MaxSevRows :
        \E r \in [1..n -> SevRows(cols)] : t = [columns |-> cols, rows |-> r]

\* Exact fractions: the percentages are compared without rounding.
Frac(n, d) == [num |-> n, den |-> d]
Zero == Frac(0, 1)
Times(q, k) == Frac(q.num * k, q.den)

\* pd.crosstab drops the rows with a missing cell in either column.
CrosstabRows(t, by) ==
    SelectSeq(t.rows, LAMBDA r : r[by] # Null /\ r["severity"] # Null)

CountOf(rows, by, g, s) ==
    Cardinality({i \in 1..Len(rows) : rows[i][by] = g /\ rows[i]["severity"] = s})

GroupTotal(rows, by, g) ==
    Cardinality({i \in 1..Len(rows) : rows[i][by] = g})

\* pd.crosstab(df[by], df['severity'], normalize='index'): one row per group
\* and one column per severity label that occurs, both sorted; each cell the
\* share of the group's rows that carry the label.
crosstab_normalized(t, by) ==
    LET rows == CrosstabRows(t, by)
        idx  == SelectSeq(GroupLabels, LAMBDA g : \E i \in 1..Len(rows) : rows[i][by] = g)
        cols == SelectSeq(SeverityLabels,
                          LAMBDA s : \E i \in 1..Len(rows) : rows[i]["severity"] = s)
    IN  [columns |-> cols, index |-> idx,
         cell |-> [g \in Range(idx) |-> [s \in Range(cols) |->
                     Frac(CountOf(rows, by, g, s), GroupTotal(rows, by, g))]]]

\* The reindex left out: the columns stay those that occur, sorted.
NoReindex(ct, order) == ct

\* .reindex(columns=severity_order, fill_value=0)
reindex_columns(ct, order) ==
    [columns |-> order, index |-> ct.index,
     cell |-> [g \in Range(ct.index) |-> [s \in Range(order) |->
                 IF s \in Range(ct.columns) THEN ct.cell[g][s] ELSE Zero]]]

\* frame * 100
TimesFrame(ct, k) ==
    [columns |-> ct.columns, index |-> ct.index,
     cell |-> [g \in Range(ct.index) |-> [s \in Range(ct.columns) |->
                 Times(ct.cell[g][s], k)]]]

HasSevCols(t, by) == "severity" \in t.columns /\ by \in t.columns

prepare_severity_analysis(t, by) ==
    IF HasSevCols(t, by)
    THEN TimesFrame(reindex_columns(crosstab_normalized(t, by), severity_order), 100)
    ELSE EmptyFrame

InitSev ==
    /\ EtlIdle
    /\ FilterIdle
    /\ CollapseIdle
    /\ PreIdle
    /\ TsIdle
    /\ TaIdle
    /\ PipeIdle
    /\ AppIdle
    /\ SankeyIdle
    /\ FrameIdle
    /\ HourIdle
    /\ CorrIdle
    /\ HeatIdle
    /\ ChartIdle
    /\ NullIdle
    /\ SessionIdle
    /\ IsSevTable(sevDf)
    /\ by_column \in {"weather_conditions", "road_type"}
    /\ sevOut = EmptyFrame
    /\ sevStatus = "start"

PrepareSeverityAnalysis ==
    /\ sevStatus = "start"
    /\ sevOut' = prepare_severity_analysis(sevDf, by_column)
    /\ sevStatus' = "returned"
    /\ UNCHANGED <<sevDf, by_column, etlVars, filterVars, collapseVars, preVars, tsVars, taVars, pipeVars, appVars, sankeyVars, frameVars, hourVars, corrVars, heatVars, chartVars, nullVars, sessionVars>>

NextSev == PrepareSeverityAnalysis

SpecSev == InitSev /\ [][NextSev]_vars

\* -------------------------------------------------------- severity: claims
\* Rows of the input that belong to group g and carry severity s.
InputCount(g, s) ==
    Cardinality({i \in 1..Len(sevDf.rows) :
                    sevDf.rows[i][by_column] = g /\ sevDf.rows[i]["severity"] = s})

CanonicalColumns ==
    /\ sevOut.columns = <<"Slight", "Serious", "Fatal">>
    /\ \A g \in Range(sevOut.index) : \A s \in {"Slight", "Serious", "Fatal"} :
          InputCount(g, s) = 0 => sevOut.cell[g][s].num = 0

\* C9 as stated: for every input table the output has exactly the columns
\* Slight, Serious, Fatal in that order, with 0 in every cell whose
\* (group, severity) combination has no rows.
C9_AlwaysCanonicalColumns ==
    sevStatus = "returned" => CanonicalColumns

\* C9 amended: for every input table that has the severity column and the
\* grouping column, the output has exactly the columns Slight, Serious, Fatal
\* in that order, with 0 in every cell whose combination has no rows, also
\* when some of the three severities do not occur; a table lacking either
\* column gives the empty table, which has no columns.
C9_CanonicalColumns ==
    sevStatus = "returned" =>
        IF HasSevCols(sevDf, by_column) THEN CanonicalColumns
        ELSE sevOut = EmptyFrame

\* C9 witness: only Fatal occurs in the data; the output still has the three
\* columns in order and the Slight and Serious cells are 0.
C9_Witness ==
    /\ sevStatus = "returned"
    /\ HasSevCols(sevDf, by_column)
    /\ Len(sevDf.rows) = 2
    /\ \A i \in 1..2 : sevDf.rows[i]["severity"] = "Fatal"
                        /\ sevDf.rows[i][by_column] = "Rain"
    /\ sevOut.columns = <<"Slight", "Serious", "Fatal">>
    /\ sevOut.index = <<"Rain">>
    /\ sevOut.cell["Rain"]["Slight"].num = 0
    /\ sevOut.cell["Rain"]["Fatal"] = Frac(200, 2)

\* Sum of the three percentages of a group's row, as an exact fraction.
RowSum(g) ==
    LET a == sevOut.cell[g]["Slight"]
        b == sevOut.cell[g]["Serious"]
        c == sevOut.cell[g]["Fatal"]
    IN  Frac(a.num * b.den * c.den + b.num * a.den * c.den + c.num * a.den * b.den,
             a.den * b.den * c.den)

\* C10: for every grouping value with a row in the output, the Slight,
\* Serious and Fatal percentages of its row sum to 100, whatever severity
\* values the rows of the group carry.
C10_RowsSumTo100 ==
    (sevStatus = "returned" /\ HasSevCols(sevDf, by_column)) =>
        \A g \in Range(sevOut.index) : RowSum(g).num = 100 * RowSum(g).den

\* ============================================================= Preprocessor
\* A raw text cell is a sequence of one-character strings, so that trimming
\* and title-casing are computed character by character; a missing raw text
\* cell is NullText.  Cleaned text is an ordinary string.
NullText == <<Null>>

LowerLetters == <<"a", "e", "f", "g", "h", "i", "k", "l", "m", "n", "o",
                  "r", "s", "t", "u", "w">>
UpperLetters == <<"A", "E", "F", "G", "H", "I", "K", "L", "M", "N", "O",
                  "R", "S", "T", "U", "W">>

IndexIn(seq, c) == CHOOSE i \in 1..Len(seq) : seq[i] = c

IsCased(c) == c \in Range(LowerLetters) \cup Range(UpperLetters)

\* str.upper / str.lower on one character.
upper(c) ==
    IF c \in Range(LowerLetters) THEN UpperLetters[IndexIn(LowerLetters, c)] ELSE c

lower(c) ==
    IF c \in Range(UpperLetters) THEN LowerLetters[IndexIn(UpperLetters, c)] ELSE c

\* astype(str): a missing cell becomes the text 'nan'.
astype_str(x) == IF x = NullText THEN <<"n", "a", "n">> ELSE x

RECURSIVE lstrip(_)
lstrip(s) == IF s # <<>> /\ Head(s) = " " THEN lstrip(Tail(s)) ELSE s

RECURSIVE rstrip(_)
rstrip(s) ==
    IF s # <<>> /\ s[Len(s)] = " " THEN rstrip(SubSeq(s, 1, Len(s) - 1)) ELSE s

\* .str.strip()
strip(s) == rstrip(lstrip(s))

\* .str.title(): a cased character is upper-cased at the start of a word
\* (after an uncased character or at the beginning), lower-cased elsewhere.
title(s) ==
    [i \in 1..Len(s) |->
        IF i > 1 /\ IsCased(s[i - 1]) THEN lower(s[i]) ELSE upper(s[i])]

RECURSIVE Join(_)
Join(s) == IF s = <<>> THEN "" ELSE Head(s) \o Join(Tail(s))

\* df[col].astype(str).str.strip().str.title() on one cell.
clean_text(x) == Join(title(strip(astype_str(x))))

\* The list string_cols.
string_cols == {"road_conditions", "weather_conditions", "road_type",
                "light_conditions", "gender", "severity", "age_grp", "day"}

\* A severity map that ranks every unlisted label as Slight.
severity_map_default(label) ==
    CASE label = "Serious" -> 2
      [] label = "Fatal" -> 3
      [] OTHER -> 1

\* df['severity'].map(severity_map) on one cell: a label that is no key of
\* the dict maps to NaN.
severity_map(label) ==
    CASE label = "Slight" -> 1
      [] label = "Serious" -> 2
      [] label = "Fatal" -> 3
      [] OTHER -> NaN

\* --- dates and times
\* A raw date cell is [kind, y, m, d]: kind "ymd" is a text of the form
\* year-month-day, kind "null" a missing cell.  A time cell is [kind, h, m]:
\* kind "hm" is a text HH:MM, kind "hms" a text HH:MM:SS, kind "time" a
\* datetime.time object, kind "null" a missing cell.
NaT == [y |-> 0, m |-> 0, d |-> 0]
NoTime == [kind |-> "null", h |-> 0, m |-> 0]

IsLeap(y) == (y % 4 = 0 /\ y % 100 # 0) \/ y % 400 = 0

DaysInMonth(y, m) ==
    IF m = 2 THEN (IF IsLeap(y) THEN 29 ELSE 28)
    ELSE IF m \in {4, 6, 9, 11} THEN 30 ELSE 31

\* pd.to_datetime(..., errors='coerce') on one cell.
to_datetime(x) ==
    IF /\ x.kind = "ymd"
       /\ x.m \in 1..12
       /\ x.d \in 1..DaysInMonth(x.y, x.m)
    THEN [y |-> x.y, m |-> x.m, d |-> x.d]
    ELSE NaT

\* pd.to_datetime(..., format='%H:%M', errors='coerce').dt.time on one cell.
to_time(x) ==
    IF x.kind = "hm" /\ x.h \in 0..23 /\ x.m \in 0..59
    THEN [kind |-> "time", h |-> x.h, m |-> x.m]
    ELSE NoTime

DayNames == <<"Sunday", "Monday", "Tuesday", "Wednesday", "Thursday",
              "Friday", "Saturday">>

MonthOffsets == <<0, 3, 2, 5, 0, 3, 5, 1, 4, 6, 2, 4>>

\* .dt.year, .dt.month and .dt.day_name() on one cell; NaT gives a missing
\* value.
dt_year(ts) == IF ts = NaT THEN NaN ELSE ts.y

dt_month(ts) == IF ts = NaT THEN NaN ELSE ts.m

dt_day_name(ts) ==
    IF ts = NaT THEN Null
    ELSE LET yy == IF ts.m < 3 THEN ts.y - 1 ELSE ts.y
         IN  DayNames[((yy + (yy \div 4) - (yy \div 100) + (yy \div 400)
                        + MonthOffsets[ts.m] + ts.d) % 7) + 1]

\* --- the table handed to preprocess
RawCols == {"Date", "Time", "Severity", "Gender"}

\* df.columns.str.lower() on one column name.
lower_name(c) ==
    CASE c = "Date" -> "date"
      [] c = "Time" -> "time"
      [] c = "Severity" -> "severity"
      [] c = "Gender" -> "gender"
      [] c = "Age_Grp" -> "age_grp"
      [] c = "Accident_Index" -> "accident_index"
      [] OTHER -> c

RawSeverity == { <<" ", "s", "l", "i", "g", "h", "t">>,
                 <<"S", "E", "R", "I", "O", "U", "S">>,
                 <<"F", "a", "t", "a", "l", " ">>,
                 <<"u", "n", "k", "n", "o", "w", "n">>,
                 NullText }

RawGender == { <<" ", "m", "a", "l", "e">>, NullText }

RawDates == { [kind |-> "ymd", y |-> 2020, m |-> 2, d |-> 29],
              [kind |-> "ymd", y |-> 2019, m |-> 2, d |-> 29],
              [kind |-> "null", y |-> 0, m |-> 0, d |-> 0] }

RawTimes == { [kind |-> "hm", h |-> 9, m |-> 30],
              [kind |-> "hms", h |-> 9, m |-> 30],
              [kind |-> "null", h |-> 0, m |-> 0] }

RawRow(cols, s, g, d, t) ==
    [c \in cols |-> CASE c = "Severity" -> s
                      [] c = "Gender" -> g
                      [] c = "Date" -> d
                      [] c = "Time" -> t]

RawRows(cols) ==
    {RawRow(cols, s, g, d, t) :
        s \in RawSeverity, g \in RawGender, d \in RawDates, t \in RawTimes}

IsRawTable(t) ==
    \E cols \in SUBSET RawCols :
        \E n \in 0..MaxPreRows :
            \E r \in [1..n -> RawRows(cols)] :
                t = [columns |-> cols, rows |-> r]

\* --- the steps of preprocess, each on the working copy
\* Replaces the rows of a table, row by row, keeping or changing its columns.
MapRows(t, cols, f) ==
    [columns |-> cols, rows |-> [i \in 1..Len(t.rows) |-> f[i]]]

lower_columns(t) ==
    LET cols == {lower_name(c) : c \in t.columns}
    IN  MapRows(t, cols,
            [i \in 1..Len(t.rows) |->
                [c \in cols |->
                    t.rows[i][CHOOSE r \in t.columns : lower_name(r) = c]]])

clean_strings(t) ==
    MapRows(t, t.columns,
        [i \in 1..Len(t.rows) |->
            [c \in t.columns |->
                IF c \in string_cols THEN clean_text(t.rows[i][c])
                ELSE t.rows[i][c]]])

\* A date step that also drops the rows whose date did not parse.
parse_date_dropna(t) ==
    LET kept == SelectSeq(t.rows, LAMBDA r : to_datetime(r["date"]) # NaT)
    IN  [columns |-> t.columns,
         rows |-> [i \in 1..Len(kept) |->
                     [kept[i] EXCEPT !["date"] = to_datetime(kept[i]["date"])]]]

parse_date(t) ==
    MapRows(t, t.columns,
        [i \in 1..Len(t.rows) |->
            [t.rows[i] EXCEPT !["date"] = to_datetime(t.rows[i]["date"])]])

add_date_parts(t) ==
    MapRows(t, t.columns \cup {"year", "month", "day_of_week"},
        [i \in 1..Len(t.rows) |->
            [c \in t.columns \cup {"year", "month", "day_of_week"} |->
                CASE c = "year" -> dt_year(t.rows[i]["date"])
                  [] c = "month" -> dt_month(t.rows[i]["date"])
                  [] c = "day_of_week" -> dt_day_name(t.rows[i]["date"])
                  [] OTHER -> t.rows[i][c]]])

parse_time(t) ==
    MapRows(t, t.columns,
        [i \in 1..Len(t.rows) |->
            [t.rows[i] EXCEPT !["time"] = to_time(t.rows[i]["time"])]])

add_severity_numeric(t) ==
    MapRows(t, t.columns \cup {"severity_numeric"},
        [i \in 1..Len(t.rows) |->
            [c \in t.columns \cup {"severity_numeric"} |->
                IF c = "severity_numeric"
                THEN severity_map(t.rows[i]["severity"])
                ELSE t.rows[i][c]]])

\* df['date'], df['time'] and df['severity'] are read without a guard.
PreprocessRaises(t) ==
    ~({"date", "time", "severity"} \subseteq {lower_name(c) : c \in t.columns})

preprocess(t) ==
    add_severity_numeric(parse_time(add_date_parts(parse_date(
        clean_strings(lower_columns(t))))))

InitPre ==
    /\ EtlIdle
    /\ FilterIdle
    /\ CollapseIdle
    /\ SevIdle
    /\ TsIdle
    /\ TaIdle
    /\ PipeIdle
    /\ AppIdle
    /\ SankeyIdle
    /\ FrameIdle
    /\ HourIdle
    /\ CorrIdle
    /\ HeatIdle
    /\ ChartIdle
    /\ NullIdle
    /\ SessionIdle
    /\ IsRawTable(preDf)
    /\ preOut = EmptyTable
    /\ preStatus = "start"

Preprocess ==
    /\ preStatus = "start"
    /\ ~PreprocessRaises(preDf)
    /\ preOut' = preprocess(preDf)
    /\ preStatus' = "returned"
    /\ UNCHANGED <<preDf, etlVars, filterVars, collapseVars, sevVars, tsVars, taVars, pipeVars, appVars, sankeyVars, frameVars, hourVars, corrVars, heatVars, chartVars, nullVars, sessionVars>>

PreprocessKeyError ==
    /\ preStatus = "start"
    /\ PreprocessRaises(preDf)
    /\ preStatus' = "KeyError"
    /\ UNCHANGED <<preDf, preOut, etlVars, filterVars, collapseVars, sevVars, tsVars, taVars, pipeVars, appVars, sankeyVars, frameVars, hourVars, corrVars, heatVars, chartVars, nullVars, sessionVars>>

NextPre == Preprocess \/ PreprocessKeyError

SpecPre == InitPre /\ [][NextPre]_vars

\* The label of a raw severity text as the claim describes it: trimmed and
\* title-cased; a missing cell has no label.
TrimmedTitle(x) == IF x = NullText THEN Null ELSE Join(title(strip(x)))

RankOf(label) ==
    CASE label = "Slight" -> 1
      [] label = "Serious" -> 2
      [] label = "Fatal" -> 3
      [] OTHER -> NaN

\* C11: whenever preprocess returns, every row's severity_numeric is 1, 2 or
\* 3 exactly when the row's raw severity, trimmed and title-cased, is
\* Slight, Serious or Fatal; for any other text and for a missing severity
\* it is null (no default rank).
C11_SeverityNumeric ==
    preStatus = "returned" =>
        \A i \in 1..Len(preDf.rows) :
            /\ i \in 1..Len(preOut.rows)
            /\ preOut.rows[i]["severity_numeric"]
                 = RankOf(TrimmedTitle(preDf.rows[i]["Severity"]))

\* C11 witness: a padded lower-case ' slight' ranked 1 next to a missing
\* severity ranked null.
C11_Witness ==
    /\ preStatus = "returned"
    /\ Len(preDf.rows) = 2
    /\ preDf.rows[1]["Severity"] = <<" ", "s", "l", "i", "g", "h", "t">>
    /\ preDf.rows[2]["Severity"] = NullText
    /\ preOut.rows[1]["severity"] = "Slight"
    /\ preOut.rows[1]["severity_numeric"] = 1
    /\ preOut.rows[2]["severity"] = "Nan"
    /\ preOut.rows[2]["severity_numeric"] = NaN

\* C12: a call of preprocess on a table that has the date, time and severity
\* columns returns whatever the date and time texts are; the output has the
\* rows of the input, in the same order; a row whose date (time) cannot be
\* parsed has a null date (time) and null year, month and day_of_week, and
\* every other row keeps its parsed values.
C12_MalformedDatesKept ==
    (preStatus # "start" /\ {"Date", "Time", "Severity"} \subseteq preDf.columns) =>
        /\ preStatus = "returned"
        /\ Len(preOut.rows) = Len(preDf.rows)
        /\ \A i \in 1..Len(preDf.rows) :
            LET in == preDf.rows[i]
                out == preOut.rows[i]
            IN  /\ out["severity"] = clean_text(in["Severity"])
                /\ IF to_datetime(in["Date"]) = NaT
                   THEN /\ out["date"] = NaT
                        /\ out["year"] = NaN
                        /\ out["month"] = NaN
                        /\ out["day_of_week"] = Null
                   ELSE /\ out["date"] = [y |-> in["Date"].y, m |-> in["Date"].m,
                                          d |-> in["Date"].d]
                        /\ out["year"] = in["Date"].y
                        /\ out["month"] = in["Date"].m
                        /\ out["day_of_week"] \in Range(DayNames)
                /\ IF to_time(in["Time"]) = NoTime
                   THEN out["time"] = NoTime
                   ELSE out["time"] = [kind |-> "time", h |-> in["Time"].h,
                                          m |-> in["Time"].m]

\* C12 witness: the first row carries 29 February 2019 and a time with
\* seconds, neither of which parses; the second row carries 29 February 2020
\* at 09:30 and keeps its values (a Saturday).
C12_Witness ==
    /\ preStatus = "returned"
    /\ Len(preDf.rows) = 2
    /\ preDf.rows[1]["Date"] = [kind |-> "ymd", y |-> 2019, m |-> 2, d |-> 29]
    /\ preDf.rows[1]["Time"].kind = "hms"
    /\ preDf.rows[2]["Date"] = [kind |-> "ymd", y |-> 2020, m |-> 2, d |-> 29]
    /\ preDf.rows[2]["Time"].kind = "hm"
    /\ Len(preOut.rows) = 2
    /\ preOut.rows[1]["date"] = NaT
    /\ preOut.rows[1]["time"] = NoTime
    /\ preOut.rows[1]["year"] = NaN
    /\ preOut.rows[2]["year"] = 2020
    /\ preOut.rows[2]["month"] = 2
    /\ preOut.rows[2]["day_of_week"] = "Saturday"
    /\ preOut.rows[2]["time"] = [kind |-> "time", h |-> 9, m |-> 30]

\* C27: preprocess returns for every merged table that has its date and time
\* columns, whichever of the designated text columns are absent: an absent
\* text column is skipped (the result has no such column) and no error is
\* raised.
C27_AbsentTextColumnsSkipped ==
    (preStatus # "start" /\ {"Date", "Time"} \subseteq preDf.columns) =>
        /\ preStatus = "returned"
        /\ \A c \in string_cols :
            c \in preOut.columns <=> c \in {lower_name(r) : r \in preDf.columns}

\* ================================================== Temporal aggregations
\* The tables handed to prepare_time_series_data and
\* prepare_temporal_analysis are cleaned tables: year, month and day_of_week
\* are the parts of the date, the time is a datetime.time or missing and the
\* severity is a cleaned label.
CleanRecords ==
    { <<[y |-> 2019, m |-> 1, d |-> 5], [kind |-> "time", h |-> 9, m |-> 30], "Slight">>,
      <<[y |-> 2019, m |-> 1, d |-> 7], NoTime, "Fatal">>,
      <<[y |-> 2019, m |-> 2, d |-> 4], [kind |-> "time", h |-> 17, m |-> 5], "Slight">>,
      <<[y |-> 2019, m |-> 4, d |-> 6], [kind |-> "time", h |-> 9, m |-> 30], "Fatal">>,
      <<NaT, [kind |-> "time", h |-> 9, m |-> 30], "Slight">> }

CleanCols == {"date", "year", "month", "day_of_week", "time", "severity"}

TempColumnSets ==
    { CleanCols, CleanCols \ {"severity"}, CleanCols \ {"day_of_week"},
      CleanCols \ {"date"}, CleanCols \ {"year"}, CleanCols \ {"time"},
      {"severity"} }

CleanRow(cols, rec) ==
    [c \in cols |-> CASE c = "date" -> rec[1]
                      [] c = "year" -> dt_year(rec[1])
                      [] c = "month" -> dt_month(rec[1])
                      [] c = "day_of_week" -> dt_day_name(rec[1])
                      [] c = "time" -> rec[2]
                      [] c = "severity" -> rec[3]]

CleanRows(cols) == {CleanRow(cols, rec) : rec \in CleanRecords}

IsTempTable(t) ==
    \E cols \in TempColumnSets :
        \E n \in 0..MaxTempRows :
            \E r \in [1..n -> CleanRows(cols)] :
                t = [columns |-> cols, rows |-> r]

\* The distinct non-missing integers of a set, ascending.
RECURSIVE SortedInts(_)
SortedInts(S) ==
    IF S = {} THEN <<>>
    ELSE LET lo == CHOOSE x \in S : \A y \in S : x <= y
         IN  <<lo>> \o SortedInts(S \ {lo})

\* Number of rows whose cells in the columns cs equal the key k.
SizeOf(rows, cs, k) ==
    Cardinality({i \in 1..Len(rows) : \A j \in 1..Len(cs) : rows[i][cs[j]] = k[j]})

\* df.groupby('year').size().reset_index(name='count'): one row per year
\* that occurs, ascending; rows with a missing year are left out.
groupby_year(t) ==
    LET ys == SortedInts({t.rows[i]["year"] : i \in 1..Len(t.rows)} \ {NaN})
    IN  [j \in 1..Len(ys) |->
            [key |-> <<ys[j]>>, count |-> SizeOf(t.rows, <<"year">>, <<ys[j]>>)]]

\* df.groupby(['year', 'month']).size().reset_index(name='count')
groupby_year_month(t) ==
    LET ps == {<<t.rows[i]["year"], t.rows[i]["month"]>> : i \in 1..Len(t.rows)}
        ks == SortedInts({p[1] * 100 + p[2] : p \in {q \in ps : q[1] # NaN /\ q[2] # NaN}})
    IN  [j \in 1..Len(ks) |->
            LET k == <<ks[j] \div 100, ks[j] % 100>>
            IN  [key |-> k, count |-> SizeOf(t.rows, <<"year", "month">>, k)]]

\* df.groupby(freq).size().reset_index(name='count') on a text column: one
\* row per label that occurs, in sorted order.
groupby_label(t, col) ==
    LET ls == SelectSeq(SeverityLabels,
                        LAMBDA l : \E i \in 1..Len(t.rows) : t.rows[i][col] = l)
    IN  [j \in 1..Len(ls) |->
            [key |-> <<ls[j]>>, count |-> SizeOf(t.rows, <<col>>, <<ls[j]>>)]]

\* The list day_order.
day_order == <<"Monday", "Tuesday", "Wednesday", "Thursday", "Friday",
               "Saturday", "Sunday">>

\* The seven rows in the order in which the days first occur in the data,
\* the absent days last.
day_counts_data_order(t) ==
    LET col == [i \in 1..Len(t.rows) |-> t.rows[i]["day_of_week"]]
        seen == SelectSeq(col, LAMBDA x : x # Null)
        first == SelectSeq([i \in 1..Len(seen) |-> IF \E k \in 1..(i - 1) : seen[k] = seen[i]
                                                   THEN Null ELSE seen[i]],
                           LAMBDA x : x # Null)
        rest == SelectSeq(day_order, LAMBDA x : x \notin Range(first))
        order == first \o rest
    IN  [j \in 1..Len(order) |->
            [key |-> <<order[j]>>,
             count |-> SizeOf(t.rows, <<"day_of_week">>, <<order[j]>>)]]

\* The day_of_week branch: value_counts of the column, mapped onto the
\* seven rows of day_order, a day without a count filled with 0.
day_counts(t) ==
    LET counts == value_counts([i \in 1..Len(t.rows) |-> t.rows[i]["day_of_week"]])
    IN  [j \in 1..Len(day_order) |->
            [key |-> <<day_order[j]>>,
             count |-> IF day_order[j] \in DOMAIN counts
                       THEN counts[day_order[j]] ELSE 0]]

\* The columns a call reads without a guard.
TimeSeriesCols(f) ==
    CASE f = "year" -> {"year"}
      [] f = "month" -> {"year", "month"}
      [] OTHER -> {f}

prepare_time_series_data(t, f) ==
    CASE f = "year" -> groupby_year(t)
      [] f = "month" -> groupby_year_month(t)
      [] f = "day_of_week" -> day_counts(t)
      [] OTHER -> groupby_label(t, f)

InitTs ==
    /\ EtlIdle
    /\ FilterIdle
    /\ CollapseIdle
    /\ SevIdle
    /\ PreIdle
    /\ TaIdle
    /\ PipeIdle
    /\ AppIdle
    /\ SankeyIdle
    /\ FrameIdle
    /\ HourIdle
    /\ CorrIdle
    /\ HeatIdle
    /\ ChartIdle
    /\ NullIdle
    /\ SessionIdle
    /\ IsTempTable(tsDf)
    /\ freq \in {"year", "month", "day_of_week", "severity"}
    /\ tsOut = <<>>
    /\ tsStatus = "start"

PrepareTimeSeriesData ==
    /\ tsStatus = "start"
    /\ TimeSeriesCols(freq) \subseteq tsDf.columns
    /\ tsOut' = prepare_time_series_data(tsDf, freq)
    /\ tsStatus' = "returned"
    /\ UNCHANGED <<tsDf, freq, etlVars, filterVars, collapseVars, sevVars, preVars, taVars, pipeVars, appVars, sankeyVars, frameVars, hourVars, corrVars, heatVars, chartVars, nullVars, sessionVars>>

TimeSeriesKeyError ==
    /\ tsStatus = "start"
    /\ ~(TimeSeriesCols(freq) \subseteq tsDf.columns)
    /\ tsStatus' = "KeyError"
    /\ UNCHANGED <<tsDf, freq, tsOut, etlVars, filterVars, collapseVars, sevVars, preVars, taVars, pipeVars, appVars, sankeyVars, frameVars, hourVars, corrVars, heatVars, chartVars, nullVars, sessionVars>>

NextTs == PrepareTimeSeriesData \/ TimeSeriesKeyError

SpecTs == InitTs /\ [][NextTs]_vars

\* Number of input rows that fall on the weekday d.
RowsOnDay(d) ==
    Cardinality({i \in 1..Len(tsDf.rows) : tsDf.rows[i]["day_of_week"] = d})

\* C14: whenever prepare_time_series_data(df, 'day_of_week') returns, its
\* result has exactly seven rows, Monday to Sunday in that order, and the
\* count of each row is the number of input rows with that weekday (0 for a
\* weekday without rows).
C14_SevenDays ==
    (tsStatus = "returned" /\ freq = "day_of_week") =>
        /\ Len(tsOut) = 7
        /\ [j \in 1..7 |-> tsOut[j].key[1]]
             = <<"Monday", "Tuesday", "Wednesday", "Thursday", "Friday",
                 "Saturday", "Sunday">>
        /\ \A j \in 1..7 : tsOut[j].count = RowsOnDay(tsOut[j].key[1])

\* C14 witness: the data holds a Saturday before two Mondays and no other
\* weekday; the result starts with Monday 2 and has Saturday 1 in sixth place.
C14_Witness ==
    /\ tsStatus = "returned" /\ freq = "day_of_week"
    /\ Len(tsDf.rows) = 3
    /\ tsDf.rows[1]["day_of_week"] = "Saturday"
    /\ tsDf.rows[2]["day_of_week"] = "Monday"
    /\ tsDf.rows[3]["day_of_week"] = "Monday"
    /\ tsOut[1] = [key |-> <<"Monday">>, count |-> 2]
    /\ tsOut[2] = [key |-> <<"Tuesday">>, count |-> 0]
    /\ tsOut[6] = [key |-> <<"Saturday">>, count |-> 1]

\* C16: a call of prepare_time_series_data on a table that lacks a column the
\* chosen branch reads returns an empty table and raises nothing.
C16_MissingColumnEmpty ==
    (tsStatus # "start" /\ ~(TimeSeriesCols(freq) \subseteq tsDf.columns)) =>
        (tsStatus = "returned" /\ tsOut = <<>>)

\* ------------------------------------------------ prepare_temporal_analysis
\* pd.to_datetime(col, format='%H:%M:%S') accepts a cell that is missing, a
\* datetime.time (through its text HH:MM:SS) or a text HH:MM:SS; the call
\* without a format accepts a missing cell and a text.
StrptimeAccepts(x) == x.kind \in {"time", "hms", "null"}

GenericAccepts(x) == x.kind \in {"hm", "hms", "null"}

\* .dt.hour on one parsed cell.
dt_hour(x) == IF x.kind = "null" THEN NaN ELSE x.h

\* extract_hour_from_time: the hour column is the hour of every cell when the
\* whole column parses with the first or with the second call, and missing
\* in every row otherwise (and when there is no time column).
extract_hour_from_time(t) ==
    LET parses ==
            /\ "time" \in t.columns
            /\ \/ \A i \in 1..Len(t.rows) : StrptimeAccepts(t.rows[i]["time"])
               \/ \A i \in 1..Len(t.rows) : GenericAccepts(t.rows[i]["time"])
    IN  MapRows(t, t.columns \cup {"hour"},
            [i \in 1..Len(t.rows) |->
                [c \in t.columns \cup {"hour"} |->
                    IF c = "hour"
                    THEN (IF parses THEN dt_hour(t.rows[i]["time"]) ELSE NaN)
                    ELSE t.rows[i][c]]])

\* df_with_hour.groupby('hour').size().reset_index(name='count')
groupby_hour(t) ==
    LET hs == SortedInts({t.rows[i]["hour"] : i \in 1..Len(t.rows)} \ {NaN})
    IN  [j \in 1..Len(hs) |->
            [key |-> <<hs[j]>>, count |-> SizeOf(t.rows, <<"hour">>, <<hs[j]>>)]]

\* df_temp['day_of_week'].isin(['Saturday', 'Sunday']) on one row.
is_weekend(r) == r["day_of_week"] \in {"Saturday", "Sunday"}

\* pd.crosstab(df_temp['is_weekend'], df_temp['severity'], normalize='index'):
\* one row per value of is_weekend that occurs, False before True.
crosstab_weekend(t) ==
    LET rows == SelectSeq(t.rows, LAMBDA r : r["severity"] # Null)
        idx  == SelectSeq(<<FALSE, TRUE>>,
                          LAMBDA g : \E i \in 1..Len(rows) : is_weekend(rows[i]) = g)
        cols == SelectSeq(SeverityLabels,
                          LAMBDA l : \E i \in 1..Len(rows) : rows[i]["severity"] = l)
    IN  [columns |-> cols, index |-> idx,
         cell |-> [g \in Range(idx) |-> [l \in Range(cols) |->
            Frac(Cardinality({i \in 1..Len(rows) :
                                is_weekend(rows[i]) = g /\ rows[i]["severity"] = l}),
                 Cardinality({i \in 1..Len(rows) : is_weekend(rows[i]) = g}))]]]

\* weekend_severity.index = labels: the rows keep their position and take the
\* new labels; the assignment needs as many labels as there are rows.
set_index(ct, labels) ==
    [columns |-> ct.columns, index |-> labels,
     cell |-> [g \in Range(labels) |-> ct.cell[ct.index[IndexIn(labels, g)]]]]

\* A missing rolling average.
NoAvg == [num |-> 0, den |-> 0]

\* df.groupby(df['date'].dt.to_period('M')).size(): one entry per month that
\* occurs, ascending; rows without a date are left out.
monthly_counts(t) ==
    LET ks == SortedInts({dt_year(t.rows[i]["date"]) * 100 + dt_month(t.rows[i]["date"]) :
                            i \in {k \in 1..Len(t.rows) : t.rows[k]["date"] # NaT}})
    IN  [j \in 1..Len(ks) |->
            [month |-> <<ks[j] \div 100, ks[j] % 100>>,
             count |-> Cardinality({i \in 1..Len(t.rows) :
                          /\ t.rows[i]["date"] # NaT
                          /\ t.rows[i]["date"].y = ks[j] \div 100
                          /\ t.rows[i]["date"].m = ks[j] % 100})]]

\* A window of three that ends at the current entry.
rolling_trailing(counts) ==
    [j \in 1..Len(counts) |->
        IF j < 3 THEN NoAvg
        ELSE Frac(counts[j - 2] + counts[j - 1] + counts[j], 3)]

\* .rolling(window=3, center=True).mean(): the window of an entry holds the
\* entry before, the entry itself and the entry after; a window with fewer
\* than three entries gives a missing value.
rolling_mean(counts) ==
    [j \in 1..Len(counts) |->
        IF j = 1 \/ j = Len(counts) THEN NoAvg
        ELSE Frac(counts[j - 1] + counts[j] + counts[j + 1], 3)]

monthly_trends(t) ==
    LET mc == monthly_counts(t)
        avg == rolling_mean([j \in 1..Len(mc) |-> mc[j].count])
    IN  [j \in 1..Len(mc) |->
            [month |-> mc[j].month, count |-> mc[j].count, rolling_avg |-> avg[j]]]

\* df_temp['severity'] is read without a guard.
TemporalKeyError(t) == "day_of_week" \in t.columns /\ "severity" \notin t.columns

\* The index assignment raises when the cross-tabulation has not two rows.
TemporalValueError(t) ==
    /\ "day_of_week" \in t.columns /\ "severity" \in t.columns
    /\ Len(crosstab_weekend(t).index) # 2

prepare_temporal_analysis(t) ==
    [keys |-> {"hourly"}
              \cup (IF "day_of_week" \in t.columns THEN {"weekend_vs_weekday"} ELSE {})
              \cup (IF "date" \in t.columns THEN {"monthly_trends"} ELSE {}),
     hourly |-> groupby_hour(extract_hour_from_time(t)),
     weekend_vs_weekday |->
        IF "day_of_week" \in t.columns
        THEN set_index(TimesFrame(crosstab_weekend(t), 100), <<"Weekday", "Weekend">>)
        ELSE EmptyFrame,
     monthly_trends |-> IF "date" \in t.columns THEN monthly_trends(t) ELSE <<>>]

InitTa ==
    /\ EtlIdle
    /\ FilterIdle
    /\ CollapseIdle
    /\ SevIdle
    /\ PreIdle
    /\ TsIdle
    /\ PipeIdle
    /\ AppIdle
    /\ SankeyIdle
    /\ FrameIdle
    /\ HourIdle
    /\ CorrIdle
    /\ HeatIdle
    /\ ChartIdle
    /\ NullIdle
    /\ SessionIdle
    /\ IsTempTable(taDf)
    /\ taOut = EmptyResults
    /\ taStatus = "start"

PrepareTemporalAnalysis ==
    /\ taStatus = "start"
    /\ ~TemporalKeyError(taDf) /\ ~TemporalValueError(taDf)
    /\ taOut' = prepare_temporal_analysis(taDf)
    /\ taStatus' = "returned"
    /\ UNCHANGED <<taDf, etlVars, filterVars, collapseVars, sevVars, preVars, tsVars, pipeVars, appVars, sankeyVars, frameVars, hourVars, corrVars, heatVars, chartVars, nullVars, sessionVars>>

PrepareTemporalKeyError ==
    /\ taStatus = "start"
    /\ TemporalKeyError(taDf)
    /\ taStatus' = "KeyError"
    /\ UNCHANGED <<taDf, taOut, etlVars, filterVars, collapseVars, sevVars, preVars, tsVars, pipeVars, appVars, sankeyVars, frameVars, hourVars, corrVars, heatVars, chartVars, nullVars, sessionVars>>

PrepareTemporalValueError ==
    /\ taStatus = "start"
    /\ TemporalValueError(taDf)
    /\ taStatus' = "ValueError"
    /\ UNCHANGED <<taDf, taOut, etlVars, filterVars, collapseVars, sevVars, preVars, tsVars, pipeVars, appVars, sankeyVars, frameVars, hourVars, corrVars, heatVars, chartVars, nullVars, sessionVars>>

NextTa ==
    PrepareTemporalAnalysis \/ PrepareTemporalKeyError \/ PrepareTemporalValueError

SpecTa == InitTa /\ [][NextTa]_vars

\* The calendar months that occur in the input, as year * 100 + month.
MonthsOfInput ==
    {taDf.rows[i]["date"].y * 100 + taDf.rows[i]["date"].m :
        i \in {k \in 1..Len(taDf.rows) : taDf.rows[k]["date"] # NaT}}

\* C15: whenever prepare_temporal_analysis returns for a table with a date
\* column, monthly_trends has one entry per month of the monthly count
\* series, the rolling_avg of the first and of the last entry is null, and
\* the rolling_avg of every other entry is exactly the mean of the counts of
\* the previous, the current and the next entry.
C15_RollingAverage ==
    (taStatus = "returned" /\ "date" \in taDf.columns) =>
        LET mt == taOut.monthly_trends
        IN  /\ "monthly_trends" \in taOut.keys
            /\ Len(mt) = Cardinality(MonthsOfInput)
            /\ {mt[j].month[1] * 100 + mt[j].month[2] : j \in 1..Len(mt)} = MonthsOfInput
            /\ \A j \in 1..Len(mt) :
                IF j = 1 \/ j = Len(mt)
                THEN mt[j].rolling_avg = NoAvg
                ELSE /\ mt[j].rolling_avg.den # 0
                     /\ mt[j].rolling_avg.num * 3
                          = (mt[j - 1].count + mt[j].count + mt[j + 1].count)
                            * mt[j].rolling_avg.den

\* C15 witness: two records in January 2019, one in February and one in
\* April; the series has three entries and the middle one averages 4/3.
C15_Witness ==
    /\ taStatus = "returned" /\ "date" \in taDf.columns
    /\ Len(taOut.monthly_trends) = 3
    /\ taOut.monthly_trends[1] = [month |-> <<2019, 1>>, count |-> 2, rolling_avg |-> NoAvg]
    /\ taOut.monthly_trends[2] = [month |-> <<2019, 2>>, count |-> 1, rolling_avg |-> Frac(4, 3)]
    /\ taOut.monthly_trends[3] = [month |-> <<2019, 4>>, count |-> 1, rolling_avg |-> NoAvg]

\* The day types of the rows that enter the cross-tabulation, weekdays first.
DayTypesPresent ==
    SelectSeq(<<"Weekday", "Weekend">>,
        LAMBDA d : \E i \in 1..Len(taDf.rows) :
            /\ taDf.rows[i]["severity"] # Null
            /\ is_weekend(taDf.rows[i]) = (d = "Weekend"))

\* C21: for every table with a day_of_week and a severity column the call of
\* prepare_temporal_analysis returns, also when all rows fall on weekdays or
\* all on weekends, and the rows of weekend_vs_weekday are labelled with the
\* day types that are present.
C21_ReturnsForAnyDayMix ==
    (taStatus # "start" /\ {"day_of_week", "severity"} \subseteq taDf.columns) =>
        /\ taStatus = "returned"
        /\ taOut.weekend_vs_weekday.index = DayTypesPresent

\* A calendar month as a number of months.
MonthNumber(y, m) == y * 12 + m - 1

MonthNumbersOfInput ==
    {MonthNumber(taDf.rows[i]["date"].y, taDf.rows[i]["date"].m) :
        i \in {k \in 1..Len(taDf.rows) : taDf.rows[k]["date"] # NaT}}

\* C30: whenever prepare_temporal_analysis returns for a table with dated
\* rows, monthly_trends has one entry for every calendar month from the
\* earliest to the latest month of the data, in order, so that neighbouring
\* entries are consecutive calendar months, and an entry of a month without
\* records has count 0.
C30_MonthsWithoutGaps ==
    (taStatus = "returned" /\ "date" \in taDf.columns /\ MonthNumbersOfInput # {}) =>
        LET mt == taOut.monthly_trends
            first == CHOOSE a \in MonthNumbersOfInput : \A b \in MonthNumbersOfInput : a <= b
            last == CHOOSE a \in MonthNumbersOfInput : \A b \in MonthNumbersOfInput : b <= a
        IN  /\ Len(mt) = last - first + 1
            /\ \A j \in 1..Len(mt) :
                /\ MonthNumber(mt[j].month[1], mt[j].month[2]) = first + j - 1
                /\ (first + j - 1 \notin MonthNumbersOfInput) => mt[j].count = 0

\* ===================================================== Batch pipeline (main.py)
\* The two input files of a run: accidents carry the key, a date, a time and
\* a severity text, bikers the key, a gender and an age group; a file may
\* lack the key column, accidents may lack the severity and bikers the age
\* group.
PipeKeys == 1..2

PipeAccidentRecords ==
    { <<[kind |-> "ymd", y |-> 2020, m |-> 2, d |-> 29],
        [kind |-> "hm", h |-> 9, m |-> 30],
        <<" ", "s", "l", "i", "g", "h", "t">>>>,
      <<[kind |-> "ymd", y |-> 2019, m |-> 2, d |-> 29],
        [kind |-> "hms", h |-> 9, m |-> 30],
        <<"S", "E", "R", "I", "O", "U", "S">>>>,
      <<[kind |-> "null", y |-> 0, m |-> 0, d |-> 0],
        [kind |-> "null", h |-> 0, m |-> 0],
        NullText>> }

PipeAccidentCols == {KeyCol, "Date", "Time", "Severity"}
PipeBikerCols == {KeyCol, "Gender", "Age_Grp"}

PipeAccidentRows(cols) ==
    { [c \in cols |-> CASE c = KeyCol -> k
                        [] c = "Date" -> rec[1]
                        [] c = "Time" -> rec[2]
                        [] c = "Severity" -> rec[3]] :
        k \in PipeKeys, rec \in PipeAccidentRecords }

PipeBikerRows(cols) ==
    { [c \in cols |-> CASE c = KeyCol -> k
                        [] c = "Gender" -> g
                        [] c = "Age_Grp" -> <<"t", "e", "e", "n">>] :
        k \in PipeKeys, g \in RawGender }

IsAccidentsFile(t) ==
    \E cols \in {PipeAccidentCols, PipeAccidentCols \ {KeyCol},
                 PipeAccidentCols \ {"Severity"}} :
        \E n \in 0..MaxPipeRows :
            \E r \in [1..n -> PipeAccidentRows(cols)] :
                t = [columns |-> cols, rows |-> r]

IsBikersFile(t) ==
    \E cols \in {PipeBikerCols, PipeBikerCols \ {KeyCol},
                 PipeBikerCols \ {"Age_Grp"}} :
        \E n \in 0..MaxPipeRows :
            \E r \in [1..n -> PipeBikerRows(cols)] :
                t = [columns |-> cols, rows |-> r]

\* accidents_by_gender_age groups by gender and age_grp without a guard, and
\* the bar plot of an empty table raises.
GenderAgeKeyError(t) == ~({"gender", "age_grp"} \subseteq t.columns)

GenderAgeTypeError(t) == ~GenderAgeKeyError(t) /\ t.rows = <<>>

InitPipe ==
    /\ IsAccidentsFile(accidents)
    /\ IsBikersFile(bikers)
    /\ merged = EmptyTable
    /\ etlStatus = "start"
    /\ FilterIdle
    /\ CollapseIdle
    /\ SevIdle
    /\ PreIdle
    /\ TsIdle
    /\ TaIdle
    /\ AppIdle
    /\ SankeyIdle
    /\ FrameIdle
    /\ HourIdle
    /\ CorrIdle
    /\ HeatIdle
    /\ ChartIdle
    /\ NullIdle
    /\ SessionIdle
    /\ pc = "merge"
    /\ pipeStatus = "running"
    /\ df_clean = EmptyTable
    /\ snapshot = NoSnapshot
    /\ plots = {}

\* Line 15 with a missing key handled by taking the accidents file alone.
PipeMergeFallback ==
    /\ pc = "merge" /\ pipeStatus = "running"
    /\ ~ (KeyCol \in accidents.columns /\ KeyCol \in bikers.columns)
    /\ merged' = accidents
    /\ etlStatus' = "merged"
    /\ pc' = "preprocess"
    /\ UNCHANGED <<accidents, bikers, pipeStatus, df_clean, snapshot, plots, filterVars, collapseVars, sevVars, preVars, tsVars, taVars, appVars, sankeyVars, frameVars, hourVars, corrVars, heatVars, chartVars, nullVars, sessionVars>>

\* Line 15: df = merge_accidents_bikers(accidents_path, bikers_path)
PipeMerge ==
    /\ pc = "merge" /\ pipeStatus = "running"
    /\ KeyCol \in accidents.columns
    /\ KeyCol \in bikers.columns
    /\ merged' = pd_merge(accidents, bikers)
    /\ etlStatus' = "merged"
    /\ pc' = "preprocess"
    /\ UNCHANGED <<accidents, bikers, pipeStatus, df_clean, snapshot, plots, filterVars, collapseVars, sevVars, preVars, tsVars, taVars, appVars, sankeyVars, frameVars, hourVars, corrVars, heatVars, chartVars, nullVars, sessionVars>>

\* Line 15 when pd.merge raises KeyError: the script ends with the traceback.
PipeMergeKeyError ==
    /\ pc = "merge" /\ pipeStatus = "running"
    /\ ~ (KeyCol \in accidents.columns /\ KeyCol \in bikers.columns)
    /\ etlStatus' = "KeyError"
    /\ pipeStatus' = "KeyError"
    /\ UNCHANGED <<accidents, bikers, merged, pc, df_clean, snapshot, plots, filterVars, collapseVars, sevVars, preVars, tsVars, taVars, appVars, sankeyVars, frameVars, hourVars, corrVars, heatVars, chartVars, nullVars, sessionVars>>

\* Line 20: df_clean = preprocess(df)
PipePreprocess ==
    /\ pc = "preprocess" /\ pipeStatus = "running"
    /\ ~PreprocessRaises(merged)
    /\ df_clean' = preprocess(merged)
    /\ pc' = "save"
    /\ UNCHANGED <<etlVars, pipeStatus, snapshot, plots, filterVars, collapseVars, sevVars, preVars, tsVars, taVars, appVars, sankeyVars, frameVars, hourVars, corrVars, heatVars, chartVars, nullVars, sessionVars>>

PipePreprocessKeyError ==
    /\ pc = "preprocess" /\ pipeStatus = "running"
    /\ PreprocessRaises(merged)
    /\ pipeStatus' = "KeyError"
    /\ UNCHANGED <<etlVars, pc, df_clean, snapshot, plots, filterVars, collapseVars, sevVars, preVars, tsVars, taVars, appVars, sankeyVars, frameVars, hourVars, corrVars, heatVars, chartVars, nullVars, sessionVars>>

\* Line 25: save_parquet(df_clean, parquet_path)
PipeSaveParquet ==
    /\ pc = "save" /\ pipeStatus = "running"
    /\ snapshot' = [exists |-> TRUE, table |-> df_clean]
    /\ pc' = "accidents_over_time"
    /\ UNCHANGED <<etlVars, pipeStatus, df_clean, plots, filterVars, collapseVars, sevVars, preVars, tsVars, taVars, appVars, sankeyVars, frameVars, hourVars, corrVars, heatVars, chartVars, nullVars, sessionVars>>

\* Line 31: accidents_over_time(df_clean)
PipeAccidentsOverTime ==
    /\ pc = "accidents_over_time" /\ pipeStatus = "running"
    /\ plots' = plots \cup {"accidents_over_time.png"}
    /\ pc' = "severity_distribution"
    /\ UNCHANGED <<etlVars, pipeStatus, df_clean, snapshot, filterVars, collapseVars, sevVars, preVars, tsVars, taVars, appVars, sankeyVars, frameVars, hourVars, corrVars, heatVars, chartVars, nullVars, sessionVars>>

\* Line 32: severity_distribution(df_clean)
PipeSeverityDistribution ==
    /\ pc = "severity_distribution" /\ pipeStatus = "running"
    /\ plots' = plots \cup {"severity_distribution.png"}
    /\ pc' = "accidents_by_gender_age"
    /\ UNCHANGED <<etlVars, pipeStatus, df_clean, snapshot, filterVars, collapseVars, sevVars, preVars, tsVars, taVars, appVars, sankeyVars, frameVars, hourVars, corrVars, heatVars, chartVars, nullVars, sessionVars>>

\* Lines 33-39: accidents_by_gender_age(df_clean) and the end of the script.
PipeGenderAge ==
    /\ pc = "accidents_by_gender_age" /\ pipeStatus = "running"
    /\ ~GenderAgeKeyError(df_clean) /\ ~GenderAgeTypeError(df_clean)
    /\ plots' = plots \cup {"accidents_by_gender_age.png"}
    /\ pc' = "end"
    /\ pipeStatus' = "done"
    /\ UNCHANGED <<etlVars, df_clean, snapshot, filterVars, collapseVars, sevVars, preVars, tsVars, taVars, appVars, sankeyVars, frameVars, hourVars, corrVars, heatVars, chartVars, nullVars, sessionVars>>

PipeGenderAgeError ==
    /\ pc = "accidents_by_gender_age" /\ pipeStatus = "running"
    /\ GenderAgeKeyError(df_clean) \/ GenderAgeTypeError(df_clean)
    /\ pipeStatus' = IF GenderAgeKeyError(df_clean) THEN "KeyError" ELSE "TypeError"
    /\ UNCHANGED <<etlVars, pc, df_clean, snapshot, plots, filterVars, collapseVars, sevVars, preVars, tsVars, taVars, appVars, sankeyVars, frameVars, hourVars, corrVars, heatVars, chartVars, nullVars, sessionVars>>

NextPipe ==
    \/ PipeMerge
    \/ PipeMergeKeyError
    \/ PipePreprocess
    \/ PipePreprocessKeyError
    \/ PipeSaveParquet
    \/ PipeAccidentsOverTime
    \/ PipeSeverityDistribution
    \/ PipeGenderAge
    \/ PipeGenderAgeError

SpecPipe == InitPipe /\ [][NextPipe]_vars

KeyAbsent == KeyCol \notin accidents.columns \/ KeyCol \notin bikers.columns

\* C17: when the key column is absent from either input file the run never
\* gets past the merge: no join result exists, preprocessing has not run, no
\* snapshot is written and no plot is generated, and once the merge has been
\* attempted the run has ended with the error.  In every run the snapshot
\* exists only after the merge and the preprocessing have completed, and it
\* holds the preprocessed merge result.
C17_AbortBeforeSnapshot ==
    /\ KeyAbsent =>
        /\ pc = "merge"
        /\ pipeStatus \in {"running", "KeyError"}
        /\ (etlStatus # "start" => pipeStatus = "KeyError")
        /\ merged = EmptyTable
        /\ df_clean = EmptyTable
        /\ snapshot = NoSnapshot
        /\ plots = {}
    /\ snapshot.exists =>
        /\ etlStatus = "merged"
        /\ pc \notin {"merge", "preprocess", "save"}
        /\ ~PreprocessRaises(merged)
        /\ snapshot.table = preprocess(merged)
    /\ plots # {} => snapshot.exists

\* C17 witness: the bikers file has rows but no key column, and the run has
\* ended at the merge with KeyError, nothing written.
C17_Witness ==
    /\ KeyCol \in accidents.columns /\ accidents.rows # <<>>
    /\ KeyCol \notin bikers.columns /\ bikers.rows # <<>>
    /\ pc = "merge" /\ pipeStatus = "KeyError" /\ etlStatus = "KeyError"
    /\ snapshot = NoSnapshot /\ plots = {} /\ df_clean = EmptyTable

\* ================================================ Dashboard session (app.py)
\* The list categorical_columns of get_unique_values_for_filters.
categorical_columns ==
    {"severity", "gender", "age_grp", "road_conditions", "weather_conditions",
     "road_type", "light_conditions", "day_of_week"}

\* The labels of the facet columns, in sorted order.
LabelOrder == <<"A", "B", "Fatal", "Nan", "Serious", "Slight", "Teen", "nan">>

\* get_unique_values_for_filters: for every listed column of the table, its
\* distinct labels, missing cells removed, sorted.
get_unique_values_for_filters(t) ==
    [c \in categorical_columns \cap t.columns |->
        SelectSeq(LabelOrder,
            LAMBDA l : l # "nan" /\ \E i \in 1..Len(t.rows) : t.rows[i][c] = l)]

\* unique_values.get(col, [])
OptionsOf(u, c) == IF c \in DOMAIN u THEN u[c] ELSE <<>>

\* st.sidebar.multiselect: any part of the options, in the order of the options.
Multiselect(options) ==
    { [none |-> FALSE, values |-> SelectSeq(options, LAMBDA l : l \in S)] :
        S \in SUBSET Range(options) }

KnownYears(t) == {t.rows[i]["year"] : i \in 1..Len(t.rows)} \ {NaN}

\* st.sidebar.slider between the smallest and the largest year of the table,
\* or year_range = None for a table without a year column.
Slider(t) ==
    IF "year" \notin t.columns THEN {NoYearRange}
    ELSE LET min_year == CHOOSE y \in KnownYears(t) : \A z \in KnownYears(t) : y <= z
             max_year == CHOOSE y \in KnownYears(t) : \A z \in KnownYears(t) : z <= y
         IN  { [none |-> FALSE, lo |-> r[1], hi |-> r[2]] :
                 r \in {q \in (min_year..max_year) \X (min_year..max_year) : q[1] <= q[2]} }

\* int(df['year'].min()) raises when the year column holds no year.
SidebarRaises(t) == "year" \in t.columns /\ KnownYears(t) = {}

\* The facets create_sidebar_filters returns; road_types is never passed.
SidebarCols == FacetCols \ {"road_type"}

\* create_sidebar_filters(df, unique_values): the dicts the widgets can return.
create_sidebar_filters(t, u) ==
    { [year_range |-> yr,
       cats |-> [c \in FacetCols |->
                   IF c \in DOMAIN a THEN a[c]
                   ELSE IF c \in SidebarCols THEN [none |-> FALSE, values |-> <<>>]
                   ELSE NoneArg]] :
        yr \in Slider(t),
        a \in { f \in [SidebarCols \cap DOMAIN u ->
                        UNION {Multiselect(OptionsOf(u, c)) : c \in SidebarCols \cap DOMAIN u}] :
                  \A c \in DOMAIN f : f[c] \in Multiselect(OptionsOf(u, c)) } }

\* The snapshot file at serving time: missing, or a cleaned table.
IsSnapshot(f) ==
    \/ f = NoSnapshot
    \/ \E cols \in DfColumnSets, n \in 0..MaxDfRows :
         \E r \in [1..n -> DfRows(cols)] :
            f = [exists |-> TRUE, table |-> [columns |-> cols, rows |-> r]]

InitApp ==
    /\ EtlIdle
    /\ FilterIdle
    /\ CollapseIdle
    /\ SevIdle
    /\ PreIdle
    /\ TsIdle
    /\ TaIdle
    /\ SankeyIdle
    /\ FrameIdle
    /\ HourIdle
    /\ CorrIdle
    /\ HeatIdle
    /\ ChartIdle
    /\ NullIdle
    /\ SessionIdle
    /\ pc = "idle" /\ pipeStatus = "idle" /\ df_clean = EmptyTable /\ plots = {}
    /\ IsSnapshot(snapshot)
    /\ appPc = "load_data"
    /\ appStatus = "running"
    /\ base = EmptyTable
    /\ selection = NoFilters
    /\ working = EmptyTable
    /\ shown = {}

\* load_data with the error message but without st.stop(): main() goes on
\* with an empty table.
LoadDataMissingContinue ==
    /\ appPc = "load_data" /\ appStatus = "running"
    /\ ~snapshot.exists
    /\ shown' = shown \cup {"error"}
    /\ appPc' = "sidebar"
    /\ UNCHANGED <<appStatus, base, selection, working, etlVars, filterVars, collapseVars, sevVars, preVars, tsVars, taVars, pipeVars, sankeyVars, frameVars, hourVars, corrVars, heatVars, chartVars, nullVars, sessionVars>>

\* Line 879, load_data lines 74-75: the snapshot is read.
LoadData ==
    /\ appPc = "load_data" /\ appStatus = "running"
    /\ snapshot.exists
    /\ base' = snapshot.table
    /\ appPc' = "sidebar"
    /\ UNCHANGED <<appStatus, selection, working, shown, etlVars, filterVars, collapseVars, sevVars, preVars, tsVars, taVars, pipeVars, sankeyVars, frameVars, hourVars, corrVars, heatVars, chartVars, nullVars, sessionVars>>

\* load_data lines 76-78: st.error and st.stop() end the script run.
LoadDataMissing ==
    /\ appPc = "load_data" /\ appStatus = "running"
    /\ ~snapshot.exists
    /\ shown' = shown \cup {"error"}
    /\ appStatus' = "stopped"
    /\ UNCHANGED <<appPc, base, selection, working, etlVars, filterVars, collapseVars, sevVars, preVars, tsVars, taVars, pipeVars, sankeyVars, frameVars, hourVars, corrVars, heatVars, chartVars, nullVars, sessionVars>>

\* Lines 882-885: the options and the sidebar widgets.
Sidebar ==
    /\ appPc = "sidebar" /\ appStatus = "running"
    /\ ~SidebarRaises(base)
    /\ selection' \in create_sidebar_filters(base, get_unique_values_for_filters(base))
    /\ appPc' = "filter"
    /\ UNCHANGED <<appStatus, base, working, shown, etlVars, filterVars, collapseVars, sevVars, preVars, tsVars, taVars, pipeVars, sankeyVars, frameVars, hourVars, corrVars, heatVars, chartVars, nullVars, sessionVars>>

SidebarValueError ==
    /\ appPc = "sidebar" /\ appStatus = "running"
    /\ SidebarRaises(base)
    /\ appStatus' = "ValueError"
    /\ UNCHANGED <<appPc, base, selection, working, shown, etlVars, filterVars, collapseVars, sevVars, preVars, tsVars, taVars, pipeVars, sankeyVars, frameVars, hourVars, corrVars, heatVars, chartVars, nullVars, sessionVars>>

\* The filter applied to the loaded table itself: the rows it removes are
\* gone from the base table too.
ApplyFiltersInPlace ==
    /\ appPc = "filter" /\ appStatus = "running"
    /\ base' = filter_dataframe(base, selection)
    /\ working' = filter_dataframe(base, selection)
    /\ appPc' = "check_empty"
    /\ UNCHANGED <<appStatus, selection, shown, etlVars, filterVars, collapseVars, sevVars, preVars, tsVars, taVars, pipeVars, sankeyVars, frameVars, hourVars, corrVars, heatVars, chartVars, nullVars, sessionVars>>

\* Line 888: filtered_df = filter_dataframe(df, **filters)
ApplyFilters ==
    /\ appPc = "filter" /\ appStatus = "running"
    /\ working' = filter_dataframe(base, selection)
    /\ appPc' = "check_empty"
    /\ UNCHANGED <<appStatus, base, selection, shown, etlVars, filterVars, collapseVars, sevVars, preVars, tsVars, taVars, pipeVars, sankeyVars, frameVars, hourVars, corrVars, heatVars, chartVars, nullVars, sessionVars>>

\* Lines 891-893: the warning for an empty subset, and return.
EmptyWarning ==
    /\ appPc = "check_empty" /\ appStatus = "running"
    /\ Len(working.rows) = 0
    /\ shown' = shown \cup {"warning"}
    /\ appStatus' = "done"
    /\ UNCHANGED <<appPc, base, selection, working, etlVars, filterVars, collapseVars, sevVars, preVars, tsVars, taVars, pipeVars, sankeyVars, frameVars, hourVars, corrVars, heatVars, chartVars, nullVars, sessionVars>>

\* Lines 896-897: calculate_kpis and display_kpis.
Kpis ==
    /\ appPc = "check_empty" /\ appStatus = "running"
    /\ Len(working.rows) # 0
    /\ shown' = shown \cup {"kpis"}
    /\ appPc' = "tabs"
    /\ UNCHANGED <<appStatus, base, selection, working, etlVars, filterVars, collapseVars, sevVars, preVars, tsVars, taVars, pipeVars, sankeyVars, frameVars, hourVars, corrVars, heatVars, chartVars, nullVars, sessionVars>>

\* Lines 900-938: the tabs with the charts, up to the footer.
Tabs ==
    /\ appPc = "tabs" /\ appStatus = "running"
    /\ "year" \in working.columns
    /\ shown' = shown \cup {"charts"}
    /\ appStatus' = "done"
    /\ UNCHANGED <<appPc, base, selection, working, etlVars, filterVars, collapseVars, sevVars, preVars, tsVars, taVars, pipeVars, sankeyVars, frameVars, hourVars, corrVars, heatVars, chartVars, nullVars, sessionVars>>

\* The first chart calls prepare_time_series_data(df, 'year'), which raises
\* KeyError on a table without a year column.
TabsKeyError ==
    /\ appPc = "tabs" /\ appStatus = "running"
    /\ "year" \notin working.columns
    /\ appStatus' = "KeyError"
    /\ UNCHANGED <<appPc, base, selection, working, shown, etlVars, filterVars, collapseVars, sevVars, preVars, tsVars, taVars, pipeVars, sankeyVars, frameVars, hourVars, corrVars, heatVars, chartVars, nullVars, sessionVars>>

\* A widget of the rendered sidebar changes: the script runs again from the
\* top.
Rerun ==
    /\ appStatus \in {"done", "KeyError"}
    /\ appPc' = "load_data"
    /\ appStatus' = "running"
    /\ base' = EmptyTable
    /\ working' = EmptyTable
    /\ shown' = {}
    /\ interacted' = TRUE
    /\ UNCHANGED <<selection, etlVars, filterVars, collapseVars, sevVars, preVars, tsVars, taVars, pipeVars, sankeyVars, frameVars, hourVars, corrVars, heatVars, chartVars, nullVars>>

NextApp ==
    \/ LoadData
    \/ LoadDataMissing
    \/ Sidebar
    \/ SidebarValueError
    \/ ApplyFilters
    \/ EmptyWarning
    \/ Kpis
    \/ Tabs
    \/ TabsKeyError
    \/ Rerun

SpecApp == InitApp /\ [][NextApp]_vars

\* C18: while the snapshot file is missing, a session never gets past
\* load_data: once load_data has run the page shows the error and the run is
\* stopped, the raw files are not merged or preprocessed again and no
\* snapshot is written, and no sidebar, filter, KPI or chart step has run.
C18_MissingSnapshotStops ==
    ~snapshot.exists =>
        /\ appPc = "load_data"
        /\ appStatus \in {"running", "stopped"}
        /\ (appStatus = "stopped" <=> shown = {"error"})
        /\ (appStatus = "running" => shown = {})
        /\ base = EmptyTable /\ selection = NoFilters /\ working = EmptyTable
        /\ etlStatus = "idle" /\ preStatus = "idle" /\ pipeStatus = "idle"
        /\ snapshot = NoSnapshot

\* C18 witness: the snapshot is missing and load_data has reported the error
\* and stopped the run.
C18_Witness ==
    /\ ~snapshot.exists
    /\ appPc = "load_data" /\ appStatus = "stopped"
    /\ shown = {"error"}

\* The sidebar as it is first drawn: the slider spans the smallest and the
\* largest year and every multiselect has all its options selected.
DefaultSelection ==
    LET u == get_unique_values_for_filters(base)
    IN  [year_range |->
            IF "year" \in base.columns
            THEN [none |-> FALSE,
                  lo |-> CHOOSE y \in KnownYears(base) : \A z \in KnownYears(base) : y <= z,
                  hi |-> CHOOSE y \in KnownYears(base) : \A z \in KnownYears(base) : z <= y]
            ELSE NoYearRange,
         cats |-> [c \in FacetCols |->
            IF c \in SidebarCols THEN [none |-> FALSE, values |-> OptionsOf(u, c)]
            ELSE NoneArg]]

Filtered == appPc \in {"check_empty", "tabs"}

\* C29: with the sidebar in its default state the working subset is the
\* whole loaded table, rows with a null year or a null value in a filtered
\* column included.
C29_DefaultKeepsEveryRow ==
    (Filtered /\ selection = DefaultSelection) => working = base

Loaded == appPc \in {"sidebar", "filter", "check_empty", "tabs"}

\* C28: in a session, whatever selections were made before, the loaded base
\* table is the table of the snapshot, and the working subset handed to the
\* KPIs and the charts is filter_dataframe of that base table with the
\* current selection.
C28_WorkingFromBaseAndSelection ==
    /\ Loaded => base = snapshot.table
    /\ Filtered => working = filter_dataframe(base, selection)

\* C28 witness: after a filter change the run has drawn its charts from a
\* working subset that holds one of the two rows of the base table.
C28_Witness ==
    /\ interacted
    /\ appPc = "tabs" /\ appStatus = "done" /\ "charts" \in shown
    /\ base = snapshot.table
    /\ Len(base.rows) = 2 /\ Len(working.rows) = 1
    /\ working = filter_dataframe(base, selection)

\* ============================================================== Sankey data
\* The thresholds of create_sankey_data: min_count of the two collapses and
\* the smallest flow that becomes an edge.
SankeyMinCount == 1000
MinFlow == 100

\* The table handed to create_sankey_data is kept as runs: a run [row, n]
\* stands for n consecutive equal rows, so that counts reach the thresholds.
SankeyCols == {"road_type", "weather_conditions", "severity"}

RunSizes == {MinFlow - 1, MinFlow, SankeyMinCount}

SankeyRows(cols) ==
    { [c \in cols |-> CASE c = "road_type" -> r
                        [] c = "weather_conditions" -> w
                        [] c = "severity" -> v] :
        r \in {"Single", "Dual"}, w \in {"Fine", "Rain"}, v \in {"Slight", "Fatal"} }

IsRunTable(t) ==
    \E cols \in {SankeyCols, SankeyCols \ {"road_type"}, SankeyCols \ {"severity"}} :
        \E k \in 0..MaxRuns :
            \E rs \in [1..k -> [row : SankeyRows(cols), n : RunSizes]] :
                t = [columns |-> cols, runs |-> rs]

\* Number of rows whose cells in the columns cs equal the key k.
RECURSIVE Weight(_, _, _)
Weight(runs, cs, k) ==
    IF runs = <<>> THEN 0
    ELSE (IF \A j \in 1..Len(cs) : Head(runs).row[cs[j]] = k[j]
          THEN Head(runs).n ELSE 0) + Weight(Tail(runs), cs, k)

\* df_temp[col] = group_rare_categories(df_temp[col], min_count=n): a label
\* of the column with fewer than n rows becomes 'Other'.
collapse_column(runs, col, n) ==
    [i \in 1..Len(runs) |->
        [runs[i] EXCEPT !.row[col] =
            IF Weight(runs, <<col>>, <<@>>) < n THEN "Other" ELSE @]]

\* The distinct elements of a sequence in the order of their first occurrence.
RECURSIVE Dedup(_)
Dedup(s) ==
    IF s = <<>> THEN <<>>
    ELSE LET d == Dedup(SubSeq(s, 1, Len(s) - 1))
         IN  IF s[Len(s)] \in Range(d) THEN d ELSE Append(d, s[Len(s)])

\* df_temp[col].unique()
unique(runs, col) == Dedup([i \in 1..Len(runs) |-> runs[i].row[col]])

\* nodes.index(x): the position (from 0) of the first element equal to x.
list_index(seq, x) ==
    (CHOOSE i \in 1..Len(seq) : seq[i] = x /\ \A j \in 1..(i - 1) : seq[j] # x) - 1

\* The labels of the three columns, in sorted order.
SankeyLabelOrder == <<"Dual", "Fatal", "Fine", "Other", "Rain", "Single", "Slight">>

\* df_temp.groupby([a, b]).size().items(): the pairs that occur, sorted.
GroupPairs(runs, a, b) ==
    LET L == Len(SankeyLabelOrder)
        all == [k \in 1..(L * L) |->
                  <<SankeyLabelOrder[((k - 1) \div L) + 1],
                    SankeyLabelOrder[((k - 1) % L) + 1]>>]
    IN  SelectSeq(all, LAMBDA q : Weight(runs, <<a, b>>, q) > 0)

\* One loop over the pairs of two columns: an edge for every pair with at
\* least MinFlow rows, its ends looked up in the node list.
Flows(runs, a, b, nodes) ==
    LET ps == SelectSeq(GroupPairs(runs, a, b),
                        LAMBDA q : Weight(runs, <<a, b>>, q) >= MinFlow)
    IN  [k \in 1..Len(ps) |->
            [source |-> list_index(nodes, ps[k][1]),
             target |-> list_index(nodes, ps[k][2]),
             value  |-> Weight(runs, <<a, b>>, ps[k])]]

\* The rows of df_temp after the two collapses.
SankeyTemp(t) ==
    collapse_column(collapse_column(t.runs, "road_type", SankeyMinCount),
                    "weather_conditions", SankeyMinCount)

create_sankey_data(t) ==
    IF ~(SankeyCols \subseteq t.columns) THEN EmptyDict
    ELSE LET runs == SankeyTemp(t)
             nodes == unique(runs, "road_type") \o unique(runs, "weather_conditions")
                        \o unique(runs, "severity")
             edges == Flows(runs, "road_type", "weather_conditions", nodes)
                        \o Flows(runs, "weather_conditions", "severity", nodes)
         IN  [keys |-> {"nodes", "sources", "targets", "values"},
              nodes |-> nodes,
              sources |-> [k \in 1..Len(edges) |-> edges[k].source],
              targets |-> [k \in 1..Len(edges) |-> edges[k].target],
              values |-> [k \in 1..Len(edges) |-> edges[k].value]]

InitSankey ==
    /\ EtlIdle
    /\ FilterIdle
    /\ CollapseIdle
    /\ SevIdle
    /\ PreIdle
    /\ TsIdle
    /\ TaIdle
    /\ PipeIdle
    /\ AppIdle
    /\ FrameIdle
    /\ HourIdle
    /\ CorrIdle
    /\ HeatIdle
    /\ ChartIdle
    /\ NullIdle
    /\ SessionIdle
    /\ IsRunTable(sankeyDf)
    /\ sankeyOut = EmptyDict
    /\ sankeyStatus = "start"

CreateSankeyData ==
    /\ sankeyStatus = "start"
    /\ sankeyOut' = create_sankey_data(sankeyDf)
    /\ sankeyStatus' = "returned"
    /\ UNCHANGED <<sankeyDf, etlVars, filterVars, collapseVars, sevVars, preVars, tsVars, taVars, pipeVars, appVars, frameVars, hourVars, corrVars, heatVars, chartVars, nullVars, sessionVars>>

NextSankey == CreateSankeyData

SpecSankey == InitSankey /\ [][NextSankey]_vars

\* The three blocks of node positions (from 0): the distinct collapsed
\* road types, then the weather conditions, then the severities.
RoadLabels == unique(SankeyTemp(sankeyDf), "road_type")
WeatherLabels == unique(SankeyTemp(sankeyDf), "weather_conditions")
SeverityValues == unique(SankeyTemp(sankeyDf), "severity")

RoadBlock == 0..(Len(RoadLabels) - 1)
WeatherBlock == Len(RoadLabels)..(Len(RoadLabels) + Len(WeatherLabels) - 1)
SeverityBlock ==
    (Len(RoadLabels) + Len(WeatherLabels))
        ..(Len(RoadLabels) + Len(WeatherLabels) + Len(SeverityValues) - 1)

SankeyReturned == sankeyStatus = "returned" /\ SankeyCols \subseteq sankeyDf.columns

\* C19: in the output of create_sankey_data the nodes are the distinct road
\* types, weather conditions and severities, concatenated; every edge has
\* its source in the road block and its target in the weather block, or its
\* source in the weather block and its target in the severity block, also
\* when a label occurs in two stages; no edge has source equal to target.
C19_EdgesByStagePosition ==
    SankeyReturned =>
        /\ sankeyOut.nodes = RoadLabels \o WeatherLabels \o SeverityValues
        /\ \A k \in 1..Len(sankeyOut.sources) :
            /\ \/ sankeyOut.sources[k] \in RoadBlock /\ sankeyOut.targets[k] \in WeatherBlock
               \/ sankeyOut.sources[k] \in WeatherBlock /\ sankeyOut.targets[k] \in SeverityBlock
            /\ sankeyOut.sources[k] # sankeyOut.targets[k]

\* The edges of the output as a set of [source, target, value] records.
SankeyEdges ==
    { [source |-> sankeyOut.sources[k], target |-> sankeyOut.targets[k],
       value |-> sankeyOut.values[k]] : k \in 1..Len(sankeyOut.sources) }

\* Position (from 0) of a label inside a block that starts at offset.
PositionIn(labels, offset, x) ==
    offset + (CHOOSE i \in 1..Len(labels) : labels[i] = x) - 1

\* C20: the three lists of the output have equal length, no edge runs from
\* the road block to the severity block, and the edge between two nodes of
\* adjacent stages is present exactly when the number of rows with that pair
\* of labels, counted after the collapse, is at least 100; its value is
\* that number.
C20_FlowsAtLeast100 ==
    SankeyReturned =>
        /\ Len(sankeyOut.sources) = Len(sankeyOut.targets)
        /\ Len(sankeyOut.targets) = Len(sankeyOut.values)
        /\ \A e \in SankeyEdges : ~(e.source \in RoadBlock /\ e.target \in SeverityBlock)
        /\ \A x \in Range(RoadLabels), y \in Range(WeatherLabels) :
            LET n == Weight(SankeyTemp(sankeyDf), <<"road_type", "weather_conditions">>, <<x, y>>)
                src == PositionIn(RoadLabels, 0, x)
                tgt == PositionIn(WeatherLabels, Len(RoadLabels), y)
            IN  /\ (n >= 100) <=> (\E e \in SankeyEdges : e.source = src /\ e.target = tgt)
                /\ \A e \in SankeyEdges : (e.source = src /\ e.target = tgt) => e.value = n
        /\ \A y \in Range(WeatherLabels), z \in Range(SeverityValues) :
            LET n == Weight(SankeyTemp(sankeyDf), <<"weather_conditions", "severity">>, <<y, z>>)
                src == PositionIn(WeatherLabels, Len(RoadLabels), y)
                tgt == PositionIn(SeverityValues, Len(RoadLabels) + Len(WeatherLabels), z)
            IN  /\ (n >= 100) <=> (\E e \in SankeyEdges : e.source = src /\ e.target = tgt)
                /\ \A e \in SankeyEdges : (e.source = src /\ e.target = tgt) => e.value = n

\* ==================================================== Objects and copies
\* Python passes tables and columns by reference.  heap is the sequence of
\* the objects the caller can reach, an object being [kind, val]; a call
\* works on a scratch heap that also holds its local objects, and leaves to
\* the caller the object it was handed (first) and the object it returned
\* (second, absent when the call raised).

\* A call without the copy: the local name is bound to the argument itself.
no_copy(h, o) == [heap |-> h, ref |-> o]

\* df.copy() / series.copy(): a new object with the content of object o.
copy(h, o) == [heap |-> Append(h, h[o]), ref |-> Len(h) + 1]

\* df[col] = ..., result.loc[...] = ...: a write into the object ref.
assign(h, ref, v) == [h EXCEPT ![ref] = [kind |-> h[ref].kind, val |-> v]]

\* An object the caller holds.
FrameObject(kind, v) == [kind |-> kind, val |-> v]

\* What the caller holds after the call.
Returned(h, o, kind, v) == <<h[o], FrameObject(kind, v)>>

Raised(h, o) == <<h[o]>>

\* The working copy of preprocess when it returns or raises: the statements
\* up to the first column that is read and absent.
preprocess_steps(t) ==
    LET a == clean_strings(lower_columns(t))
    IN  IF "date" \notin a.columns THEN a
        ELSE LET b == add_date_parts(parse_date(a))
             IN  IF "time" \notin b.columns THEN b
                 ELSE LET c == parse_time(b)
                      IN  IF "severity" \notin c.columns THEN c
                          ELSE add_severity_numeric(c)

\* The calls of filter_dataframe made on a tracked table: without filters,
\* with a year range, and with the selections of the sidebar.
FrameFilterCalls(t) ==
    {NoFilters, [NoFilters EXCEPT !.year_range = [none |-> FALSE, lo |-> 2019, hi |-> 2019]]}
    \cup (IF SidebarRaises(t) THEN {}
          ELSE create_sidebar_filters(t, get_unique_values_for_filters(t)))

\* df_temp['is_weekend'] = ...: the column written into the working copy.
add_is_weekend(t) ==
    MapRows(t, t.columns \cup {"is_weekend"},
        [i \in 1..Len(t.rows) |->
            [c \in t.columns \cup {"is_weekend"} |->
                IF c = "is_weekend" THEN is_weekend(t.rows[i]) ELSE t.rows[i][c]]])

InitFrame ==
    /\ EtlIdle
    /\ FilterIdle
    /\ CollapseIdle
    /\ SevIdle
    /\ PreIdle
    /\ TsIdle
    /\ TaIdle
    /\ PipeIdle
    /\ AppIdle
    /\ SankeyIdle
    /\ HourIdle
    /\ CorrIdle
    /\ HeatIdle
    /\ ChartIdle
    /\ NullIdle
    /\ SessionIdle
    /\ \/ \E cols \in {RawCols, RawCols \ {"Severity"}}, n \in 0..MaxFrameRows :
            \E r \in [1..n -> RawRows(cols)] :
                heap = <<FrameObject("raw", [columns |-> cols, rows |-> r])>>
       \/ \E cols \in DfColumnSets, n \in 0..MaxFrameRows :
            \E r \in [1..n -> DfRows(cols)] :
                heap = <<FrameObject("df", [columns |-> cols, rows |-> r])>>
       \/ \E n \in 0..(MaxFrameRows + 1) :
            \E r \in [1..n -> SeriesCells] : heap = <<FrameObject("series", r)>>
       \/ \E cols \in SevColumnSets, n \in 0..MaxFrameRows :
            \E r \in [1..n -> SevRows(cols)] :
                heap = <<FrameObject("sev", [columns |-> cols, rows |-> r])>>
       \/ \E cols \in TempColumnSets, n \in 0..(MaxFrameRows + 1) :
            \E r \in [1..n -> CleanRows(cols)] :
                heap = <<FrameObject("temp", [columns |-> cols, rows |-> r])>>
       \/ \E cols \in {SankeyCols, SankeyCols \ {"road_type"}}, n \in 0..MaxFrameRows :
            \E r \in [1..n -> [row : SankeyRows(cols), n : RunSizes]] :
                heap = <<FrameObject("runs", [columns |-> cols, runs |-> r])>>
    /\ argRef = 1
    /\ frameCall = "none"
    /\ frameStatus = "start"

\* preprocess(df): line 7 copies, lines 10-30 write into the copy.
FramePreprocess ==
    \E o \in 1..Len(heap) :
        /\ heap[o].kind = "raw"
        /\ LET c == copy(heap, o)
               h == assign(c.heap, c.ref, preprocess_steps(c.heap[c.ref].val))
           IN  IF PreprocessRaises(heap[o].val)
               THEN heap' = Raised(h, o) /\ frameStatus' = "KeyError"
               ELSE heap' = Returned(h, o, "clean", h[c.ref].val) /\ frameStatus' = "returned"
        /\ argRef' = o
        /\ frameCall' = "preprocess"
        /\ UNCHANGED <<etlVars, filterVars, collapseVars, sevVars, preVars, tsVars, taVars, pipeVars, appVars, sankeyVars, hourVars, corrVars, heatVars, chartVars, nullVars, sessionVars>>

\* filter_dataframe(df, ...): line 34 copies; every predicate binds the
\* local name to a new table.
FrameFilterDataframe ==
    \E o \in 1..Len(heap) :
        /\ heap[o].kind = "df"
        /\ \E f \in FrameFilterCalls(heap[o].val) :
            LET c == copy(heap, o)
            IN  IF FilterRaises(heap[o].val, f)
                THEN heap' = Raised(c.heap, o) /\ frameStatus' = "KeyError"
                ELSE /\ heap' = Returned(c.heap, o, "df",
                                         filter_dataframe(c.heap[c.ref].val, f))
                     /\ frameStatus' = "returned"
        /\ argRef' = o
        /\ frameCall' = "filter_dataframe"
        /\ UNCHANGED <<etlVars, filterVars, collapseVars, sevVars, preVars, tsVars, taVars, pipeVars, appVars, sankeyVars, hourVars, corrVars, heatVars, chartVars, nullVars, sessionVars>>

\* group_rare_categories(series, ...): line 102 copies, line 103 writes the
\* label into the copy.
FrameGroupRareCategories ==
    \E o \in 1..Len(heap) :
        /\ heap[o].kind = "series"
        /\ \E n \in 0..MaxMinCount, label \in {"Other", "Rare"} :
            LET rare == RareCategories(value_counts(heap[o].val), n)
                c == copy(heap, o)
                h == assign(c.heap, c.ref, Relabel(c.heap[c.ref].val, rare, label))
            IN  heap' = Returned(h, o, "series", h[c.ref].val)
        /\ frameStatus' = "returned"
        /\ argRef' = o
        /\ frameCall' = "group_rare_categories"
        /\ UNCHANGED <<etlVars, filterVars, collapseVars, sevVars, preVars, tsVars, taVars, pipeVars, appVars, sankeyVars, hourVars, corrVars, heatVars, chartVars, nullVars, sessionVars>>

\* prepare_severity_analysis(df, by_column): reads the table, no write.
FramePrepareSeverityAnalysis ==
    \E o \in 1..Len(heap) :
        /\ heap[o].kind = "sev"
        /\ \E by \in {"weather_conditions", "road_type"} :
            heap' = Returned(heap, o, "frame", prepare_severity_analysis(heap[o].val, by))
        /\ frameStatus' = "returned"
        /\ argRef' = o
        /\ frameCall' = "prepare_severity_analysis"
        /\ UNCHANGED <<etlVars, filterVars, collapseVars, sevVars, preVars, tsVars, taVars, pipeVars, appVars, sankeyVars, hourVars, corrVars, heatVars, chartVars, nullVars, sessionVars>>

\* prepare_time_series_data(df, freq): reads the table, no write.
FramePrepareTimeSeriesData ==
    \E o \in 1..Len(heap) :
        /\ heap[o].kind = "temp"
        /\ \E f \in {"year", "month", "day_of_week", "severity"} :
            IF TimeSeriesCols(f) \subseteq heap[o].val.columns
            THEN /\ heap' = Returned(heap, o, "rows", prepare_time_series_data(heap[o].val, f))
                 /\ frameStatus' = "returned"
            ELSE heap' = Raised(heap, o) /\ frameStatus' = "KeyError"
        /\ argRef' = o
        /\ frameCall' = "prepare_time_series_data"
        /\ UNCHANGED <<etlVars, filterVars, collapseVars, sevVars, preVars, tsVars, taVars, pipeVars, appVars, sankeyVars, hourVars, corrVars, heatVars, chartVars, nullVars, sessionVars>>

\* prepare_temporal_analysis(df): extract_hour_from_time copies at line 286
\* and writes the hour into the copy; line 352 copies again and line 353
\* writes is_weekend into that copy.
FramePrepareTemporalAnalysis ==
    \E o \in 1..Len(heap) :
        /\ heap[o].kind = "temp"
        /\ LET t == heap[o].val
               c1 == copy(heap, o)
               h1 == assign(c1.heap, c1.ref, extract_hour_from_time(c1.heap[c1.ref].val))
               h2 == IF "day_of_week" \in t.columns
                     THEN LET c2 == copy(h1, o)
                          IN  assign(c2.heap, c2.ref, add_is_weekend(c2.heap[c2.ref].val))
                     ELSE h1
           IN  IF TemporalKeyError(t)
               THEN heap' = Raised(h2, o) /\ frameStatus' = "KeyError"
               ELSE IF TemporalValueError(t)
               THEN heap' = Raised(h2, o) /\ frameStatus' = "ValueError"
               ELSE /\ heap' = Returned(h2, o, "results", prepare_temporal_analysis(t))
                    /\ frameStatus' = "returned"
        /\ argRef' = o
        /\ frameCall' = "prepare_temporal_analysis"
        /\ UNCHANGED <<etlVars, filterVars, collapseVars, sevVars, preVars, tsVars, taVars, pipeVars, appVars, sankeyVars, hourVars, corrVars, heatVars, chartVars, nullVars, sessionVars>>

\* create_sankey_data(df): line 502 copies, lines 503-504 write the collapsed
\* columns into the copy.
FrameCreateSankeyData ==
    \E o \in 1..Len(heap) :
        /\ heap[o].kind = "runs"
        /\ LET t == heap[o].val
               c == copy(heap, o)
               h1 == assign(c.heap, c.ref,
                        [columns |-> t.columns,
                         runs |-> collapse_column(c.heap[c.ref].val.runs, "road_type",
                                                  SankeyMinCount)])
               h2 == assign(h1, c.ref,
                        [columns |-> t.columns,
                         runs |-> collapse_column(h1[c.ref].val.runs, "weather_conditions",
                                                  SankeyMinCount)])
           IN  IF SankeyCols \subseteq t.columns
               THEN heap' = Returned(h2, o, "dict", create_sankey_data(t))
               ELSE heap' = Returned(heap, o, "dict", EmptyDict)
        /\ frameStatus' = "returned"
        /\ argRef' = o
        /\ frameCall' = "create_sankey_data"
        /\ UNCHANGED <<etlVars, filterVars, collapseVars, sevVars, preVars, tsVars, taVars, pipeVars, appVars, sankeyVars, hourVars, corrVars, heatVars, chartVars, nullVars, sessionVars>>

NextFrame ==
    \/ FramePreprocess
    \/ FrameFilterDataframe
    \/ FrameGroupRareCategories
    \/ FramePrepareSeverityAnalysis
    \/ FramePrepareTimeSeriesData
    \/ FramePrepareTemporalAnalysis
    \/ FrameCreateSankeyData

SpecFrame == InitFrame /\ [][NextFrame]_vars

\* C13: no call of preprocess, filter_dataframe, group_rare_categories or of
\* an aggregation function changes the object it is handed: after the call
\* the argument object holds the columns and values it held before, whatever
\* calls were made earlier and whether the call returns or raises.
C13_ArgumentsUnchanged == [][heap'[1] = heap[argRef']]_vars

\* C13 witness: preprocess has returned a cleaned table with the derived
\* columns while the raw table it was handed still has its row and none of
\* the derived columns.
C13_Witness ==
    /\ frameCall = "preprocess" /\ frameStatus = "returned"
    /\ Len(heap) = 2
    /\ heap[1].kind = "raw" /\ Len(heap[1].val.rows) = 1
    /\ heap[1].val.columns = RawCols
    /\ heap[2].kind = "clean"
    /\ {"year", "severity_numeric"} \subseteq heap[2].val.columns

\* ==================================================== extract_hour_from_time
\* The time column of the table handed to extract_hour_from_time holds
\* datetime.time objects, texts and missing cells; the texts of one table
\* are written in one form, HH:MM:SS or HH:MM, or cannot be read as a time.
UnreadableTime == [kind |-> "text", h |-> 0, m |-> 0]

HourCells(form) ==
    { [kind |-> "time", h |-> 9, m |-> 30], [kind |-> form, h |-> 17, m |-> 5],
      UnreadableTime, NoTime }

InitHour ==
    /\ EtlIdle
    /\ FilterIdle
    /\ CollapseIdle
    /\ SevIdle
    /\ PreIdle
    /\ TsIdle
    /\ TaIdle
    /\ PipeIdle
    /\ AppIdle
    /\ SankeyIdle
    /\ FrameIdle
    /\ CorrIdle
    /\ HeatIdle
    /\ ChartIdle
    /\ NullIdle
    /\ SessionIdle
    /\ \E cols \in SUBSET {"time"}, form \in {"hms", "hm"}, n \in 0..MaxHourRows :
         \E r \in [1..n -> [cols -> HourCells(form)]] :
            hourDf = [columns |-> cols, rows |-> r]
    /\ hourOut = EmptyTable
    /\ hourStatus = "start"

\* extract_hour_from_time(df): the bare except clauses let no exception out.
ExtractHourFromTime ==
    /\ hourStatus = "start"
    /\ hourOut' = extract_hour_from_time(hourDf)
    /\ hourStatus' = "returned"
    /\ UNCHANGED <<hourDf, etlVars, filterVars, collapseVars, sevVars, preVars, tsVars, taVars, pipeVars, appVars, sankeyVars, frameVars, corrVars, heatVars, chartVars, nullVars, sessionVars>>

NextHour == ExtractHourFromTime

SpecHour == InitHour /\ [][NextHour]_vars

\* A time value that can be parsed on its own: a datetime.time or a text
\* that reads as a time.
ReadableTime(x) == x.kind \in {"time", "hms", "hm"}

\* C22: in the table extract_hour_from_time returns, the hour of a row is
\* decided by the time value of that row alone: it is the hour (0-23) of the
\* value when the value can be parsed and null when it cannot, whatever the
\* other rows hold.
C22_HourPerRow ==
    (hourStatus = "returned" /\ "time" \in hourDf.columns) =>
        \A i \in 1..Len(hourDf.rows) :
            hourOut.rows[i]["hour"] =
                IF ReadableTime(hourDf.rows[i]["time"])
                THEN hourDf.rows[i]["time"].h ELSE NaN

\* ============================================== calculate_correlation_matrix
\* The list numeric_cols of line 423.
numeric_cols == <<"speed_limit", "number_of_casualties", "number_of_vehicles",
                  "severity_numeric">>

\* df[cols].dropna(): the rows without a missing cell in the columns cols,
\* projected on these columns.
dropna(t, cols) ==
    LET kept == SelectSeq(t.rows, LAMBDA r : \A j \in 1..Len(cols) : r[cols[j]] # NaN)
    IN  [i \in 1..Len(kept) |-> [c \in Range(cols) |-> kept[i][c]]]

\* calculate_correlation_matrix(df).  The matrix returned by corr() is kept
\* as the columns it is computed over and the rows it is computed from, of
\* which its coefficients are a function.
calculate_correlation_matrix(t) ==
    LET df_with_hour == extract_hour_from_time(t)
        cols == IF "hour" \in df_with_hour.columns
                THEN Append(numeric_cols, "hour") ELSE numeric_cols
        available_cols == SelectSeq(cols, LAMBDA c : c \in df_with_hour.columns)
        correlation_data == dropna(df_with_hour, available_cols)
    IN  IF Len(available_cols) > 1 /\ Len(correlation_data) > 0
        THEN [columns |-> available_cols, data |-> correlation_data]
        ELSE EmptyMatrix

\* The tables of the model: some of the numeric columns and the time column,
\* every cell present or missing.
CorrColumnSets ==
    SUBSET {"speed_limit", "severity_numeric", "time"} \cup {Range(numeric_cols)}

CorrRows(cols) ==
    { x @@ y : x \in [cols \ {"time"} -> {NaN, 1}],
               y \in [cols \cap {"time"} -> {[kind |-> "time", h |-> 9, m |-> 30], NoTime}] }

InitCorr ==
    /\ EtlIdle
    /\ FilterIdle
    /\ CollapseIdle
    /\ SevIdle
    /\ PreIdle
    /\ TsIdle
    /\ TaIdle
    /\ PipeIdle
    /\ AppIdle
    /\ SankeyIdle
    /\ FrameIdle
    /\ HourIdle
    /\ HeatIdle
    /\ ChartIdle
    /\ NullIdle
    /\ SessionIdle
    /\ \E cols \in CorrColumnSets, n \in 0..MaxCorrRows :
         \E r \in [1..n -> CorrRows(cols)] :
            corrDf = [columns |-> cols, rows |-> r]
    /\ corrOut = EmptyMatrix
    /\ corrStatus = "start"

CalculateCorrelationMatrix ==
    /\ corrStatus = "start"
    /\ corrOut' = calculate_correlation_matrix(corrDf)
    /\ corrStatus' = "returned"
    /\ UNCHANGED <<corrDf, etlVars, filterVars, collapseVars, sevVars, preVars, tsVars, taVars, pipeVars, appVars, sankeyVars, frameVars, hourVars, heatVars, chartVars, nullVars, sessionVars>>

NextCorr == CalculateCorrelationMatrix

SpecCorr == InitCorr /\ [][NextCorr]_vars

\* The candidate columns present in the input: the listed numeric columns it
\* has, and the hour when it has a time column to derive it from.
CandidatesPresent ==
    SelectSeq(Append(numeric_cols, "hour"),
        LAMBDA c : IF c = "hour" THEN "time" \in corrDf.columns ELSE c \in corrDf.columns)

\* The value of a candidate column in row i of the input.
CandidateCell(i, c) ==
    IF c = "hour" THEN dt_hour(corrDf.rows[i]["time"]) ELSE corrDf.rows[i][c]

\* The rows of the input without a null among the candidate columns.
SurvivingRows ==
    SelectSeq([i \in 1..Len(corrDf.rows) |-> i],
        LAMBDA i : \A j \in 1..Len(CandidatesPresent) :
            CandidateCell(i, CandidatesPresent[j]) # NaN)

\* C23: calculate_correlation_matrix returns an empty result exactly when
\* fewer than two candidate columns are present in the input or no row is
\* free of nulls among them; otherwise its matrix is over exactly the
\* candidate columns present and computed from exactly the rows without a
\* null among them.  A table without a time column and with two or more
\* fully populated candidate columns therefore gets a non-empty matrix.
C23_CandidatesPresentOnly ==
    corrStatus = "returned" =>
        IF Len(CandidatesPresent) < 2 \/ Len(SurvivingRows) = 0
        THEN corrOut = EmptyMatrix
        ELSE /\ corrOut.columns = CandidatesPresent
             /\ corrOut.data =
                  [k \in 1..Len(SurvivingRows) |->
                      [c \in Range(CandidatesPresent) |-> CandidateCell(SurvivingRows[k], c)]]

\* ============================================ prepare_severity_speed_heatmap
\* Lines 318-319: the edges and the labels of the bins (the first label is
\* written with <= here).
speed_bins == <<0, 20, 30, 40, 50, 60, 70, 100>>
speed_labels == <<"<=20", "21-30", "31-40", "41-50", "51-60", "61-70", ">70">>

\* pd.cut(x, bins, labels, include_lowest=True) on one value: the label of
\* the interval (lo, hi] that holds it, the first interval also holding its
\* lower edge; a value outside all intervals gets no label.
cut(v, bins, labels) ==
    IF \E j \in 1..Len(labels) :
          (bins[j] < v \/ (j = 1 /\ v = bins[1])) /\ v <= bins[j + 1]
    THEN labels[CHOOSE j \in 1..Len(labels) :
          (bins[j] < v \/ (j = 1 /\ v = bins[1])) /\ v <= bins[j + 1]]
    ELSE Null

\* .round(1) of a fraction, in tenths, halves to the even neighbour.
round_1(q) ==
    LET n == q.num * 10
        fl == n \div q.den
        r2 == 2 * (n % q.den)
    IN  IF r2 < q.den THEN fl
        ELSE IF r2 > q.den THEN fl + 1
        ELSE IF fl % 2 = 0 THEN fl ELSE fl + 1

\* df_temp.dropna(subset=['speed_limit']) and the speed_bin column.
with_speed_bin(t) ==
    LET kept == SelectSeq(t.rows, LAMBDA r : r["speed_limit"] # NaN)
    IN  [columns |-> t.columns \cup {"speed_bin"},
         rows |-> [i \in 1..Len(kept) |->
            [c \in t.columns \cup {"speed_bin"} |->
                IF c = "speed_bin" THEN cut(kept[i]["speed_limit"], speed_bins, speed_labels)
                ELSE kept[i][c]]]]

\* pd.crosstab(speed_bin, severity, normalize='index') * 100, rounded: one
\* row per bin that occurs, in the order of the bins, one column per severity
\* that occurs, sorted; rows without a bin or without a severity are left out.
prepare_severity_speed_heatmap(t) ==
    IF ~({"severity", "speed_limit"} \subseteq t.columns) THEN EmptyFrame
    ELSE LET rows == SelectSeq(with_speed_bin(t).rows,
                        LAMBDA r : r["speed_bin"] # Null /\ r["severity"] # Null)
             idx  == SelectSeq(speed_labels,
                        LAMBDA b : \E i \in 1..Len(rows) : rows[i]["speed_bin"] = b)
             cols == SelectSeq(SeverityLabels,
                        LAMBDA l : \E i \in 1..Len(rows) : rows[i]["severity"] = l)
         IN  IF Len(rows) = 0 THEN EmptyFrame
             ELSE [columns |-> cols, index |-> idx,
                   cell |-> [b \in Range(idx) |-> [l \in Range(cols) |->
                      round_1(Frac(100 * CountOf(rows, "speed_bin", b, l),
                                   GroupTotal(rows, "speed_bin", b)))]]]

SpeedCells == {NaN, 0, 20, 21, 100, 101}

HeatRows(cols) ==
    { x @@ y : x \in [cols \cap {"speed_limit"} -> SpeedCells],
               y \in [cols \cap {"severity"} -> {"Slight", "Fatal"}] }

InitHeat ==
    /\ EtlIdle
    /\ FilterIdle
    /\ CollapseIdle
    /\ SevIdle
    /\ PreIdle
    /\ TsIdle
    /\ TaIdle
    /\ PipeIdle
    /\ AppIdle
    /\ SankeyIdle
    /\ FrameIdle
    /\ HourIdle
    /\ CorrIdle
    /\ ChartIdle
    /\ NullIdle
    /\ SessionIdle
    /\ \E cols \in {{"speed_limit", "severity"}, {"severity"}, {"speed_limit"}},
          n \in 0..MaxHeatRows :
         \E r \in [1..n -> HeatRows(cols)] :
            heatDf = [columns |-> cols, rows |-> r]
    /\ heatOut = EmptyFrame
    /\ heatStatus = "start"

PrepareSeveritySpeedHeatmap ==
    /\ heatStatus = "start"
    /\ heatOut' = prepare_severity_speed_heatmap(heatDf)
    /\ heatStatus' = "returned"
    /\ UNCHANGED <<heatDf, etlVars, filterVars, collapseVars, sevVars, preVars, tsVars, taVars, pipeVars, appVars, sankeyVars, frameVars, hourVars, corrVars, chartVars, nullVars, sessionVars>>

NextHeat == PrepareSeveritySpeedHeatmap

SpecHeat == InitHeat /\ [][NextHeat]_vars

\* The seven bins of the claim: bin j holds the values above edge j up to and
\* including edge j + 1, and the first bin also holds 0.
FixedEdges == <<0, 20, 30, 40, 50, 60, 70, 100>>

InFixedBin(v, j) ==
    (FixedEdges[j] < v /\ v <= FixedEdges[j + 1]) \/ (j = 1 /\ v = 0)

\* The rows of the input with a speed limit.
SpeedRows == {i \in 1..Len(heatDf.rows) : heatDf.rows[i]["speed_limit"] # NaN}

\* C24: in the heatmap of a table with speed_limit and severity columns
\* every row with a speed limit is counted in exactly one of the seven fixed
\* bins: the row of its bin is in the output, and the cell of a bin and a
\* severity is the rounded percentage of the rows of the bin, taken over all
\* rows with a speed limit, that have the severity.
C24_EveryRowInOneBin ==
    (heatStatus = "returned" /\ {"severity", "speed_limit"} \subseteq heatDf.columns) =>
        /\ \A i \in SpeedRows :
            /\ Cardinality({j \in 1..7 : InFixedBin(heatDf.rows[i]["speed_limit"], j)}) = 1
            /\ \E j \in 1..7 :
                /\ InFixedBin(heatDf.rows[i]["speed_limit"], j)
                /\ speed_labels[j] \in Range(heatOut.index)
        /\ \A j \in 1..7 : \A l \in {"Slight", "Fatal"} :
            LET inBin == {i \in SpeedRows : InFixedBin(heatDf.rows[i]["speed_limit"], j)}
                hits == {i \in inBin : heatDf.rows[i]["severity"] = l}
            IN  hits # {} =>
                  /\ speed_labels[j] \in Range(heatOut.index)
                  /\ l \in Range(heatOut.columns)
                  /\ heatOut.cell[speed_labels[j]][l]
                       = round_1(Frac(100 * Cardinality(hits), Cardinality(inBin)))

\* ==================================== Severity cross-tabulations for charts
\* The labels of the grouping columns of the tables below, in sorted order.
ChartLabelOrder ==
    <<"Adult", "Child", "Dark", "Daylight", "Fine", "Nan", "Other", "Rain", "Teen">>

\* The table with column col replaced by the series s.
with_column(t, col, s) ==
    [columns |-> t.columns,
     rows |-> [i \in 1..Len(t.rows) |-> [t.rows[i] EXCEPT ![col] = s[i]]]]

\* df[col] as a series.
column(t, col) == [i \in 1..Len(t.rows) |-> t.rows[i][col]]

\* (pd.crosstab(df[by], df['severity'], normalize='index') * 100).round(1):
\* one row per label of by that occurs and one column per severity that
\* occurs, both sorted; the cells in tenths of a percent.
crosstab_pct(t, by) ==
    LET rows == CrosstabRows(t, by)
        idx  == SelectSeq(ChartLabelOrder, LAMBDA g : \E i \in 1..Len(rows) : rows[i][by] = g)
        cols == SelectSeq(SeverityLabels,
                          LAMBDA l : \E i \in 1..Len(rows) : rows[i]["severity"] = l)
    IN  [columns |-> cols, index |-> idx,
         cell |-> [g \in Range(idx) |-> [l \in Range(cols) |->
                     round_1(Frac(100 * CountOf(rows, by, g, l), GroupTotal(rows, by, g)))]]]

\* prepare_environmental_analysis on a table without a road_type column.
prepare_environmental_analysis(t) ==
    LET collapsed_by(col) ==
            with_column(t, col, group_rare_categories(column(t, col), 500, "Other"))
    IN  (IF {"weather_conditions", "severity"} \subseteq t.columns
         THEN "weather_severity" :> crosstab_pct(collapsed_by("weather_conditions"),
                                                 "weather_conditions")
         ELSE <<>>)
        @@
        (IF {"light_conditions", "severity"} \subseteq t.columns
         THEN "light_severity" :> crosstab_pct(collapsed_by("light_conditions"),
                                               "light_conditions")
         ELSE <<>>)

\* prepare_demographic_severity_analysis on a table without a gender column.
prepare_demographic_severity_analysis(t) ==
    IF {"age_grp", "severity"} \subseteq t.columns
    THEN "age_severity_heatmap" :> crosstab_pct(t, "age_grp")
    ELSE <<>>

\* df.groupby(['year', 'severity']).size().unstack(fill_value=0).reset_index():
\* one row per year and one count column per severity that occurs, sorted;
\* index holds the year column.
prepare_severity_trends_data(t) ==
    IF ~({"year", "severity"} \subseteq t.columns) THEN EmptyFrame
    ELSE LET rows == SelectSeq(t.rows, LAMBDA r : r["year"] # NaN /\ r["severity"] # Null)
             idx  == SortedInts({rows[i]["year"] : i \in 1..Len(rows)})
             cols == SelectSeq(SeverityLabels,
                               LAMBDA l : \E i \in 1..Len(rows) : rows[i]["severity"] = l)
         IN  [columns |-> cols, index |-> idx,
              cell |-> [y \in Range(idx) |-> [l \in Range(cols) |->
                          CountOf(rows, "year", y, l)]]]

\* The filtered tables of the model: every row carries a severity and belongs
\* to one of two groups, which fixes its year, weather, light, age group, day
\* and speed limit.
ChartCols ==
    {"severity", "year", "weather_conditions", "light_conditions", "age_grp",
     "day_of_week", "speed_limit"}

ChartRow(g, l) ==
    [c \in ChartCols |->
        CASE c = "severity" -> l
          [] c = "year" -> IF g = 1 THEN 2019 ELSE 2020
          [] c = "weather_conditions" -> IF g = 1 THEN "Fine" ELSE "Rain"
          [] c = "light_conditions" -> IF g = 1 THEN "Daylight" ELSE "Dark"
          [] c = "age_grp" -> IF g = 1 THEN "Adult" ELSE "Child"
          [] c = "day_of_week" -> IF g = 1 THEN "Monday" ELSE "Saturday"
          [] c = "speed_limit" -> IF g = 1 THEN 30 ELSE 60]

ChartRows == {ChartRow(g, l) : g \in 1..2, l \in Range(severity_order)}

InitChart ==
    /\ EtlIdle
    /\ FilterIdle
    /\ CollapseIdle
    /\ SevIdle
    /\ PreIdle
    /\ TsIdle
    /\ TaIdle
    /\ PipeIdle
    /\ AppIdle
    /\ SankeyIdle
    /\ FrameIdle
    /\ HourIdle
    /\ CorrIdle
    /\ HeatIdle
    /\ NullIdle
    /\ SessionIdle
    /\ \E n \in 1..MaxChartRows :
         \E r \in [1..n -> ChartRows] : chartDf = [columns |-> ChartCols, rows |-> r]
    /\ chartCall = "none"
    /\ chartOut = <<>>
    /\ chartStatus = "start"

ChartEnvironmentalAnalysis ==
    /\ chartStatus = "start"
    /\ chartOut' = prepare_environmental_analysis(chartDf)
    /\ chartCall' = "prepare_environmental_analysis"
    /\ chartStatus' = "returned"
    /\ UNCHANGED <<chartDf, etlVars, filterVars, collapseVars, sevVars, preVars, tsVars, taVars, pipeVars, appVars, sankeyVars, frameVars, hourVars, corrVars, heatVars, nullVars, sessionVars>>

ChartDemographicSeverityAnalysis ==
    /\ chartStatus = "start"
    /\ chartOut' = prepare_demographic_severity_analysis(chartDf)
    /\ chartCall' = "prepare_demographic_severity_analysis"
    /\ chartStatus' = "returned"
    /\ UNCHANGED <<chartDf, etlVars, filterVars, collapseVars, sevVars, preVars, tsVars, taVars, pipeVars, appVars, sankeyVars, frameVars, hourVars, corrVars, heatVars, nullVars, sessionVars>>

ChartSeverityTrendsData ==
    /\ chartStatus = "start"
    /\ chartOut' = ("severity_trends" :> prepare_severity_trends_data(chartDf))
    /\ chartCall' = "prepare_severity_trends_data"
    /\ chartStatus' = "returned"
    /\ UNCHANGED <<chartDf, etlVars, filterVars, collapseVars, sevVars, preVars, tsVars, taVars, pipeVars, appVars, sankeyVars, frameVars, hourVars, corrVars, heatVars, nullVars, sessionVars>>

ChartSeveritySpeedHeatmap ==
    /\ chartStatus = "start"
    /\ chartOut' = ("heatmap_data" :> prepare_severity_speed_heatmap(chartDf))
    /\ chartCall' = "prepare_severity_speed_heatmap"
    /\ chartStatus' = "returned"
    /\ UNCHANGED <<chartDf, etlVars, filterVars, collapseVars, sevVars, preVars, tsVars, taVars, pipeVars, appVars, sankeyVars, frameVars, hourVars, corrVars, heatVars, nullVars, sessionVars>>

\* prepare_temporal_analysis: of its results the weekday/weekend table.
ChartTemporalAnalysis ==
    /\ chartStatus = "start"
    /\ ~TemporalValueError(chartDf)
    /\ chartOut' = ("weekend_vs_weekday" :>
                      prepare_temporal_analysis(chartDf).weekend_vs_weekday)
    /\ chartCall' = "prepare_temporal_analysis"
    /\ chartStatus' = "returned"
    /\ UNCHANGED <<chartDf, etlVars, filterVars, collapseVars, sevVars, preVars, tsVars, taVars, pipeVars, appVars, sankeyVars, frameVars, hourVars, corrVars, heatVars, nullVars, sessionVars>>

ChartTemporalValueError ==
    /\ chartStatus = "start"
    /\ TemporalValueError(chartDf)
    /\ chartCall' = "prepare_temporal_analysis"
    /\ chartStatus' = "ValueError"
    /\ UNCHANGED <<chartDf, chartOut, etlVars, filterVars, collapseVars, sevVars, preVars, tsVars, taVars, pipeVars, appVars, sankeyVars, frameVars, hourVars, corrVars, heatVars, nullVars, sessionVars>>

NextChart ==
    \/ ChartEnvironmentalAnalysis
    \/ ChartDemographicSeverityAnalysis
    \/ ChartSeverityTrendsData
    \/ ChartSeveritySpeedHeatmap
    \/ ChartTemporalAnalysis
    \/ ChartTemporalValueError

SpecChart == InitChart /\ [][NextChart]_vars

\* Number of rows of the input with the severity l.
RowsWithSeverity(l) ==
    Cardinality({i \in 1..Len(chartDf.rows) : chartDf.rows[i]["severity"] = l})

\* C25: every severity cross-tabulation returned for the charts (weather,
\* light, age group, weekday/weekend, speed limit, yearly trend) has exactly
\* the columns Slight, Serious, Fatal in this order, and a severity that does
\* not occur in the data has 0 in every row.
C25_CanonicalColumnsEverywhere ==
    chartStatus = "returned" =>
        \A k \in DOMAIN chartOut :
            /\ chartOut[k].columns = severity_order
            /\ \A g \in Range(chartOut[k].index) : \A l \in Range(severity_order) :
                RowsWithSeverity(l) = 0 =>
                    IF chartCall = "prepare_temporal_analysis"
                    THEN chartOut[k].cell[g][l].num = 0
                    ELSE chartOut[k].cell[g][l] = 0

\* ============================== Missing text from preprocess to the charts
\* df[by].value_counts() as a list: the labels by falling count, labels of
\* equal count in the order of their first row.
RECURSIVE by_count(_, _)
by_count(s, counts) ==
    IF DOMAIN counts = {} THEN <<>>
    ELSE LET first(v) == CHOOSE i \in 1..Len(s) : s[i] = v /\ \A j \in 1..(i - 1) : s[j] # v
             top == CHOOSE v \in DOMAIN counts :
                      \A w \in DOMAIN counts :
                          \/ counts[w] < counts[v]
                          \/ counts[w] = counts[v] /\ first(v) <= first(w)
         IN  <<top>> \o by_count(s, [w \in DOMAIN counts \ {top} |-> counts[w]])

\* calculate_accident_rates(df, by_column): one row per label with its count
\* and its percentage of the counted rows, in tenths.
calculate_accident_rates(t, by) ==
    IF by \notin t.columns THEN <<>>
    ELSE LET counts == value_counts(column(t, by))
             labels == by_count(column(t, by), counts)
             total  == Cardinality({i \in 1..Len(t.rows) : t.rows[i][by] # Null})
         IN  [k \in 1..Len(labels) |->
                [label |-> labels[k], count |-> counts[labels[k]],
                 percentage |-> round_1(Frac(100 * counts[labels[k]], total))]]

\* The merged tables of the model: a date, a time, and a severity and an age
\* group that are written out or missing.
NullRawRows ==
    { [Date |-> [kind |-> "ymd", y |-> 2020, m |-> 2, d |-> 29],
       Time |-> [kind |-> "hm", h |-> 9, m |-> 30],
       Severity |-> v, Age_Grp |-> a] :
        v \in {<<" ", "s", "l", "i", "g", "h", "t">>, <<"S", "E", "R", "I", "O", "U", "S">>,
               NullText},
        a \in {<<"t", "e", "e", "n">>, NullText} }

InitNull ==
    /\ EtlIdle
    /\ FilterIdle
    /\ CollapseIdle
    /\ SevIdle
    /\ PreIdle
    /\ TsIdle
    /\ TaIdle
    /\ PipeIdle
    /\ AppIdle
    /\ SankeyIdle
    /\ FrameIdle
    /\ HourIdle
    /\ CorrIdle
    /\ HeatIdle
    /\ ChartIdle
    /\ SessionIdle
    /\ \E n \in 0..MaxNullRows :
         \E r \in [1..n -> NullRawRows] :
            nullRaw = [columns |-> {"Date", "Time", "Severity", "Age_Grp"}, rows |-> r]
    /\ nullClean = EmptyTable
    /\ nullCall = "none"
    /\ nullBy = "none"
    /\ nullOut = <<>>
    /\ nullStatus = "raw"

\* main.py line 20: df_clean = preprocess(df)
NullPreprocess ==
    /\ nullStatus = "raw"
    /\ nullClean' = preprocess(nullRaw)
    /\ nullStatus' = "clean"
    /\ UNCHANGED <<nullRaw, nullCall, nullBy, nullOut, etlVars, filterVars, collapseVars, sevVars, preVars, tsVars, taVars, pipeVars, appVars, sankeyVars, frameVars, hourVars, corrVars, heatVars, chartVars, sessionVars>>

NullGetUniqueValues ==
    /\ nullStatus = "clean"
    /\ nullOut' = get_unique_values_for_filters(nullClean)
    /\ nullCall' = "get_unique_values_for_filters"
    /\ nullStatus' = "returned"
    /\ UNCHANGED <<nullRaw, nullClean, nullBy, etlVars, filterVars, collapseVars, sevVars, preVars, tsVars, taVars, pipeVars, appVars, sankeyVars, frameVars, hourVars, corrVars, heatVars, chartVars, sessionVars>>

NullCalculateAccidentRates ==
    /\ nullStatus = "clean"
    /\ \E by \in {"age_grp", "severity"} :
        /\ nullOut' = calculate_accident_rates(nullClean, by)
        /\ nullBy' = by
    /\ nullCall' = "calculate_accident_rates"
    /\ nullStatus' = "returned"
    /\ UNCHANGED <<nullRaw, nullClean, etlVars, filterVars, collapseVars, sevVars, preVars, tsVars, taVars, pipeVars, appVars, sankeyVars, frameVars, hourVars, corrVars, heatVars, chartVars, sessionVars>>

NullDemographicSeverityAnalysis ==
    /\ nullStatus = "clean"
    /\ nullOut' = prepare_demographic_severity_analysis(nullClean)
    /\ nullCall' = "prepare_demographic_severity_analysis"
    /\ nullStatus' = "returned"
    /\ UNCHANGED <<nullRaw, nullClean, nullBy, etlVars, filterVars, collapseVars, sevVars, preVars, tsVars, taVars, pipeVars, appVars, sankeyVars, frameVars, hourVars, corrVars, heatVars, chartVars, sessionVars>>

NextNull ==
    \/ NullPreprocess
    \/ NullGetUniqueValues
    \/ NullCalculateAccidentRates
    \/ NullDemographicSeverityAnalysis

SpecNull == InitNull /\ [][NextNull]_vars

\* The name of a cleaned column in the merged table.
RawName(c) == IF c = "severity" THEN "Severity" ELSE "Age_Grp"

\* The cleaned labels of the records whose source field is not missing.
LabelsOfPresent(c) ==
    {nullClean.rows[i][c] :
        i \in {k \in 1..Len(nullRaw.rows) : nullRaw.rows[k][RawName(c)] # NullText}}

\* C26: a record whose severity or age group is missing in the source adds
\* no category after preprocess: every option of
\* get_unique_values_for_filters, every row of calculate_accident_rates and
\* every row and column label of the age-by-severity cross-tabulation is the
\* label of a record whose field is present in the source.
C26_MissingIsNoCategory ==
    nullStatus = "returned" =>
        CASE nullCall = "get_unique_values_for_filters" ->
                \A c \in {"severity", "age_grp"} : Range(nullOut[c]) \subseteq LabelsOfPresent(c)
          [] nullCall = "calculate_accident_rates" ->
                {nullOut[k].label : k \in 1..Len(nullOut)} \subseteq LabelsOfPresent(nullBy)
          [] OTHER ->
                /\ Range(nullOut["age_severity_heatmap"].index) \subseteq LabelsOfPresent("age_grp")
                /\ Range(nullOut["age_severity_heatmap"].columns)
                      \subseteq LabelsOfPresent("severity")

====
